---- MODULE Spec2Model ----
(***************************************************************************)
(* Model of scm_electron_microscopes: the unit conversion helper           *)
(* (utility._convert_length), the pixel-size resolvers of the instrument   *)
(* classes (tem.py, sem.py) with their export_with_scalebar front ends,    *)
(* the scale-bar size, layout and file writes of                           *)
(* utility._export_with_scalebar, and get_metadata of the classes.         *)
(*                                                                         *)
(* Numbers.  Python floats are modelled as exact decimals m * 10^e, kept   *)
(* normalised (m carries no trailing zero, 0 is [m |-> 0, e |-> 0]), so    *)
(* that a product with a power of ten is a shift of e and equality is      *)
(* equality of the value.  Rounding error of binary floating point is not  *)
(* modelled.                                                               *)
(***************************************************************************)
EXTENDS Integers, Sequences, FiniteSets, TLC

VARIABLES
    \* --- unit conversion: the arguments of the calls and what they returned
    value, unitA, unitB, unitC,
    rAC, rAB, rABC, rCanon,
    \* --- one instance of an instrument class
    cls,      \* the class of the instance
    file,     \* what the source file holds (tags, metadata, data bar)
    attr,     \* the attributes the methods set: pixelsize, unit, metadata
    disk,     \* the files written since the instance was made
    args,     \* the arguments of the last call
    last,     \* what the last call did and how it ended
    budget,   \* the calls the caller has still to make
    hist,     \* history: how often a pixel size was resolved
    \* --- the size of the scale bar
    snap      \* the target of the last automatic choice and the size chosen

convVars == <<value, unitA, unitB, unitC, rAC, rAB, rABC, rCanon>>
instVars == <<cls, file, attr, disk, args, last, budget, hist>>
barVars == <<snap>>
vars == <<convVars, instVars, barVars>>

-----------------------------------------------------------------------------
(* Decimal numbers                                                         *)

RECURSIVE Norm(_, _)
Norm(m, e) ==
    IF m = 0 THEN [m |-> 0, e |-> 0]
    ELSE IF m % 10 = 0 THEN Norm(m \div 10, e + 1)
    ELSE [m |-> m, e |-> e]

Dec(m, e) == Norm(m, e)

\* v * 10**d
Mul10(v, d) == IF v.m = 0 THEN v ELSE [m |-> v.m, e |-> v.e + d]

RECURSIVE Pow10(_)
Pow10(n) == IF n = 0 THEN 1 ELSE 10 * Pow10(n - 1)

\* the number of decimal digits of m > 0
RECURSIVE Digits(_)
Digits(m) == IF m < 10 THEN 1 ELSE 1 + Digits(m \div 10)

Min(a, b) == IF a <= b THEN a ELSE b
Max(a, b) == IF a >= b THEN a ELSE b

\* a >= b, for a >= 0 and b >= 0
DecGeq(a, b) ==
    IF b.m = 0 THEN TRUE
    ELSE IF a.m = 0 THEN FALSE
    ELSE LET oa == a.e + Digits(a.m) - 1
             ob == b.e + Digits(b.m) - 1
             d  == Max(Digits(a.m), Digits(b.m))
         IN  IF oa # ob THEN oa > ob
             ELSE a.m * Pow10(d - Digits(a.m)) >= b.m * Pow10(d - Digits(b.m))
DecLt(a, b) == ~DecGeq(a, b)

\* a * b
DecMul(a, b) == Norm(a.m * b.m, a.e + b.e)

\* abs(a - b)
DecAbsDiff(a, b) ==
    LET e0 == Min(a.e, b.e)
        d  == a.m * Pow10(a.e - e0) - b.m * Pow10(b.e - e0)
    IN  Norm(IF d < 0 THEN -d ELSE d, e0)

\* 1 / m for the mantissas whose inverse is a finite decimal
Inverse(m) ==
    CASE m = 1   -> [m |-> 1, e |-> 0]
      [] m = 2   -> [m |-> 5, e |-> -1]
      [] m = 4   -> [m |-> 25, e |-> -2]
      [] m = 5   -> [m |-> 2, e |-> -1]
      [] m = 8   -> [m |-> 125, e |-> -3]
      [] m = 25  -> [m |-> 4, e |-> -2]
      [] m = 125 -> [m |-> 8, e |-> -3]
Invertible(v) == v.m \in {1, 2, 4, 5, 8, 25, 125}

\* a / b, for b with a finite decimal inverse
DecDiv(a, b) == DecMul(a, [m |-> Inverse(b.m).m, e |-> Inverse(b.m).e - b.e])

\* a + b and a - b, of either sign
DecAdd(a, b) ==
    LET e0 == Min(a.e, b.e)
    IN  Norm(a.m * Pow10(a.e - e0) + b.m * Pow10(b.e - e0), e0)
DecSub(a, b) ==
    LET e0 == Min(a.e, b.e)
    IN  Norm(a.m * Pow10(a.e - e0) - b.m * Pow10(b.e - e0), e0)

\* a <= b, of either sign
DecLeq(a, b) == DecSub(b, a).m >= 0
DecMax(a, b) == IF DecLeq(a, b) THEN b ELSE a

\* a / 2**n
RECURSIVE DecHalve(_, _)
DecHalve(a, n) == IF n = 0 THEN a ELSE DecHalve(Norm(a.m * 5, a.e - 1), n - 1)

-----------------------------------------------------------------------------
(* utility._convert_length                                                 *)

None == "<None>"

\* the list of all units in steps of 10, '' marking a decade with no name
units_flat ==
    << "fm", "pm", "Å", "nm", "µm", "mm", "cm", "dm", "m", "dam", "hm", "km" >>
units_shifted ==
    << "fm", "", "",
       "pm", "Å", "",
       "nm", "", "",
       "µm", "", "",
       "mm", "cm", "dm",
       "m", "dam", "hm",
       "km" >>
units ==
    << "fm", "", "",
       "pm", "", "Å",
       "nm", "", "",
       "µm", "", "",
       "mm", "cm", "dm",
       "m", "dam", "hm",
       "km" >>

\* x in lst
In(x, lst) == \E i \in 1..Len(lst) : lst[i] = x

\* lst.index(x): the position (from 0) of the first occurrence of x
index(lst, x) == (CHOOSE i \in 1..Len(lst) :
                    lst[i] = x /\ \A j \in 1..(i - 1) : lst[j] # x) - 1

\* the aliases 'um' and 'A' are replaced by the correct characters
alias_none(u) == u
alias(u) == IF u = "um" THEN "µm" ELSE IF u = "A" THEN "Å" ELSE u

Returned(v, u) == [status |-> "ok", value |-> v, unit |-> u]
Raised(err) == [status |-> err, value |-> Dec(0, 0), unit |-> ""]
Pending == [status |-> "pending", value |-> Dec(0, 0), unit |-> ""]

\* the body of the function once convert and unit have their final spelling
convert_body_abs(v, unit, convert) ==
    IF convert # unit
    THEN IF unit = "" \/ convert = "" THEN Raised("ValueError")
         ELSE IF ~In(unit, units) THEN Raised("ValueError")
         ELSE IF ~In(convert, units) THEN Raised("ValueError")
         ELSE LET d == index(units, unit) - index(units, convert)
              IN  Returned(Mul10(v, IF d < 0 THEN -d ELSE d), convert)
    ELSE Returned(v, convert)
convert_body(v, unit, convert) ==
    IF convert # unit
    THEN IF unit = "" \/ convert = "" THEN Raised("ValueError")
         ELSE IF ~In(unit, units) THEN Raised("ValueError")
         ELSE IF ~In(convert, units) THEN Raised("ValueError")
         ELSE Returned(Mul10(v, index(units, unit) - index(units, convert)),
                       convert)
    ELSE Returned(v, convert)

_convert_length(v, unit, convert) ==
    convert_body(v, alias(unit),
                 alias(IF convert = None THEN "µm" ELSE convert))

-----------------------------------------------------------------------------
(* Calls of _convert_length on bounded arguments                           *)

MaxMantissa == 17
MaxExp == 2

NamedUnits == {units[i] : i \in 1..Len(units)} \ {""}
UnitArgs == NamedUnits \cup {"um", "A", "", "furlong"}
ValueArgs == {Dec(m, e) : m \in {0, 1, 5, MaxMantissa}, e \in (-1)..MaxExp}

\* no instance is in use while the conversion calls are made
NoInstance ==
    /\ cls = "" /\ file = "" /\ attr = "" /\ disk = {} /\ args = ""
    /\ last = "" /\ budget = 0 /\ hist = ""

\* no bar size chosen yet
Bar(set, target, size) ==
    [set |-> set, target |-> target, size |-> size, from |-> "",
     scale |-> Dec(0, 0), width |-> 0, pixelsize |-> Dec(0, 0),
     length |-> Dec(0, 0), height |-> 0, box |-> ""]
NoBar == Bar(FALSE, Dec(0, 0), Dec(0, 0))

InitConv ==
    /\ NoInstance
    /\ snap = NoBar
    /\ value \in ValueArgs
    /\ unitA \in UnitArgs
    /\ unitB \in UnitArgs
    /\ unitC \in UnitArgs \cup {None}
    /\ rAC = Pending /\ rAB = Pending /\ rABC = Pending /\ rCanon = Pending

\* _convert_length(value, A, C)
ConvertAC ==
    /\ rAC = Pending
    /\ rAC' = _convert_length(value, unitA, unitC)
    /\ UNCHANGED <<value, unitA, unitB, unitC, rAB, rABC, rCanon, instVars, barVars>>

\* _convert_length(value, A, B)
ConvertAB ==
    /\ rAB = Pending
    /\ rAB' = _convert_length(value, unitA, unitB)
    /\ UNCHANGED <<value, unitA, unitB, unitC, rAC, rABC, rCanon, instVars, barVars>>

\* _convert_length(_convert_length(value, A, B)[0], B, C)
ConvertBC ==
    /\ rAB.status = "ok"
    /\ rABC = Pending
    /\ rABC' = _convert_length(rAB.value, unitB, unitC)
    /\ UNCHANGED <<value, unitA, unitB, unitC, rAC, rAB, rCanon, instVars, barVars>>

\* the canonical symbol of a unit argument, as a caller writes it
Canonical(u) == IF u = "um" THEN "µm" ELSE IF u = "A" THEN "Å" ELSE u

\* _convert_length(value, A, C) once more, the caller spelling 'µm' and 'Å'
\* itself where the first call passed 'um' and 'A'
ConvertCanon ==
    /\ rCanon = Pending
    /\ rCanon' = _convert_length(value, Canonical(unitA), Canonical(unitC))
    /\ UNCHANGED <<value, unitA, unitB, unitC, rAC, rAB, rABC, instVars, barVars>>

NextConv == ConvertAC \/ ConvertAB \/ ConvertBC \/ ConvertCanon

SpecConv == InitConv /\ [][NextConv]_vars

-----------------------------------------------------------------------------
(* Claims about _convert_length, checked under SpecConv                    *)

C5_InvalidUnitRaises ==
    (rAC # Pending
        /\ (Canonical(unitA) \notin NamedUnits
             \/ (unitC # None /\ Canonical(unitC) \notin NamedUnits)))
    => rAC.status = "ValueError"

\* the ladder of the named units as the claim states it: each unit with the
\* number of decades that separate it from the unit before it
Ladder ==
    << <<"fm", 0>>, <<"pm", 3>>, <<"Å", 2>>, <<"nm", 1>>, <<"µm", 3>>,
       <<"mm", 3>>, <<"cm", 1>>, <<"dm", 1>>, <<"m", 1>> >>
RECURSIVE DecadesUpTo(_)
DecadesUpTo(k) == IF k = 0 THEN 0 ELSE Ladder[k][2] + DecadesUpTo(k - 1)
LadderDecade(u) ==
    DecadesUpTo(CHOOSE k \in 1..Len(Ladder) : Ladder[k][1] = u)
LadderUnits == {Ladder[k][1] : k \in 1..Len(Ladder)}

\* C6: between named units the value is multiplied by
\* 10^(position(from) - position(to)), and the positions are the true
\* decades: 1 pm = 1000 fm, 1 Å = 100 pm, 1 nm = 10 Å, 1 µm = 1000 nm,
\* 1 mm = 1000 µm, 1 cm = 10 mm, 1 dm = 10 cm, 1 m = 10 dm; 1.7 nm is
\* 0.0017 µm.
C6_TableDecades ==
    (rAC # Pending /\ unitA \in NamedUnits /\ unitC \in NamedUnits) =>
        /\ rAC = Returned(
                    Mul10(value, index(units, unitA) - index(units, unitC)),
                    unitC)
        /\ (unitA \in LadderUnits /\ unitC \in LadderUnits) =>
                rAC.value =
                    Mul10(value, LadderDecade(unitA) - LadderDecade(unitC))
        /\ (value = Dec(17, -1) /\ unitA = "nm" /\ unitC = "µm") =>
                rAC.value = Dec(17, -4)

\* 1.7 nm has been converted to µm
C6_Witness ==
    /\ value = Dec(17, -1) /\ unitA = "nm" /\ unitC = "µm"
    /\ rAC.status = "ok"

\* C7 as stated: 500 pm converts to 5000 Å.
C7_Original ==
    (value = Dec(5, 2) /\ unitA = "pm" /\ unitC = "Å" /\ rAC # Pending)
    => rAC = Returned(Dec(5000, 0), "Å")

\* C7 as amended: 500 pm converts to 5 Å (1 Å = 100 pm).
C7_FiveAngstrom ==
    (value = Dec(5, 2) /\ unitA = "pm" /\ unitC = "Å" /\ rAC # Pending)
    => rAC = Returned(Dec(5, 0), "Å")

\* 500 pm has been converted to Å
C7_Witness ==
    value = Dec(5, 2) /\ unitA = "pm" /\ unitC = "Å" /\ rAC.status = "ok"

\* C8: a call that passes 'um' for 'µm' or 'A' for 'Å' (as unit, as convert
\* or as both) ends as the call with the canonical symbols ends, with the
\* same value, and the unit it returns is never an alias.
C8_AliasesEquivalent ==
    /\ (rAC # Pending /\ rCanon # Pending) => rAC = rCanon
    /\ rAC.status = "ok" => rAC.unit \notin {"um", "A"}

\* a value has been converted from 'A' to 'um' and from 'Å' to 'µm'
C8_Witness ==
    /\ unitA = "A" /\ unitC = "um" /\ value = Dec(5, 2)
    /\ rAC = Returned(Dec(5, -2), "µm")
    /\ rCanon = Returned(Dec(5, -2), "µm")

-----------------------------------------------------------------------------
(* The instrument classes: values, attributes, source files                *)

Zero == Dec(0, 0)
One == Dec(1, 0)

\* a pixel size: a float, a 2-sequence of floats (tuple or list), or nothing
PxNone == [kind |-> "none", v0 |-> Zero, v1 |-> Zero]
PxNum(v) == [kind |-> "num", v0 |-> v, v1 |-> v]
PxPair(a, b) == [kind |-> "pair", v0 |-> a, v1 |-> b]
\* [a, 1]: the list tia.get_pixelsize builds on its legacy branch
PxList(a) == [kind |-> "list", v0 |-> a, v1 |-> One]

\* the attributes of a fresh instance: pixelsize, unit and metadata not set
NoAttr == [has |-> FALSE, pixelsize |-> PxNone, unit |-> "", metadata |-> FALSE]
SetPixelsize(a, px, u) == [a EXCEPT !.has = TRUE, !.pixelsize = px, !.unit = u]
SetMetadata(a) == [a EXCEPT !.metadata = TRUE]

\* what the text recogniser does and what the user types at the prompts
Env(ocr, unit, val, numeric) ==
    [ocr |-> ocr, unit |-> unit, value |-> val, numeric |-> numeric]
NoEnv == Env("", "", Zero, FALSE)

\* how a method ended: what it returned or raised, the attributes it left,
\* the prompts it made on the console and the warnings it gave
Outcome(status, px, u, a, prompts, warns) ==
    [status |-> status, px |-> px, unit |-> u, attr |-> a,
     prompts |-> prompts, warns |-> warns, env |-> NoEnv]
Fail(err, a, prompts, warns) == Outcome(err, PxNone, "", a, prompts, warns)
\* the same outcome, reached with the recogniser and the user doing env
With(env, r) == [r EXCEPT !.env = env]

\* a source file name: stem and extension around the last '.'
Name(stem, ext) == [stem |-> stem, ext |-> ext]
NoName == Name("", "")

-----------------------------------------------------------------------------
(* Automatic choice of the unit of a value in metres                       *)

\* helios.get_pixelsize: the unit and the factor applied to x and y
helios_auto(x) ==
    IF DecGeq(x, Dec(1, -1)) THEN [unit |-> "m", shift |-> 0]
    ELSE IF DecLt(x, Dec(1, -1)) /\ DecGeq(x, Dec(1, -4))
         THEN [unit |-> "mm", shift |-> 3]
    ELSE IF DecLt(x, Dec(1, -4)) /\ DecGeq(x, Dec(1, -7))
         THEN [unit |-> "µm", shift |-> 6]
    ELSE [unit |-> "nm", shift |-> 9]

\* a variant of tia.get_pixelsize with the boundaries of sis
tia_auto_tenfold(x) ==
    IF DecGeq(x, Dec(10, -3)) THEN [unit |-> "m", shift |-> 0]
    ELSE IF DecLt(x, Dec(10, -3)) /\ DecGeq(x, Dec(10, -6))
         THEN [unit |-> "mm", shift |-> 3]
    ELSE IF DecLt(x, Dec(10, -6)) /\ DecGeq(x, Dec(10, -9))
         THEN [unit |-> "µm", shift |-> 6]
    ELSE IF DecLt(x, Dec(10, -9)) /\ DecGeq(x, Dec(10, -12))
         THEN [unit |-> "nm", shift |-> 9]
    ELSE [unit |-> "pm", shift |-> 12]
\* tia.get_pixelsize
tia_auto(x) ==
    IF DecGeq(x, Dec(1, -3)) THEN [unit |-> "m", shift |-> 0]
    ELSE IF DecLt(x, Dec(1, -3)) /\ DecGeq(x, Dec(1, -6))
         THEN [unit |-> "mm", shift |-> 3]
    ELSE IF DecLt(x, Dec(1, -6)) /\ DecGeq(x, Dec(1, -9))
         THEN [unit |-> "µm", shift |-> 6]
    ELSE IF DecLt(x, Dec(1, -9)) /\ DecGeq(x, Dec(1, -12))
         THEN [unit |-> "nm", shift |-> 9]
    ELSE [unit |-> "pm", shift |-> 12]

\* sis.get_pixelsize
sis_auto(x) ==
    IF DecGeq(x, Dec(10, -3)) THEN [unit |-> "m", shift |-> 0]
    ELSE IF DecLt(x, Dec(10, -3)) /\ DecGeq(x, Dec(10, -6))
         THEN [unit |-> "mm", shift |-> 3]
    ELSE IF DecLt(x, Dec(10, -6)) /\ DecGeq(x, Dec(10, -9))
         THEN [unit |-> "µm", shift |-> 6]
    ELSE IF DecLt(x, Dec(10, -9)) /\ DecGeq(x, Dec(10, -12))
         THEN [unit |-> "nm", shift |-> 9]
    ELSE [unit |-> "pm", shift |-> 12]

\* velox_image.get_pixelsize: the convert target chosen from the y pixel size
velox_auto(y) ==
    IF DecGeq(y, Dec(10, -3)) THEN "m"
    ELSE IF DecLt(y, Dec(10, -3)) /\ DecGeq(y, Dec(10, -6)) THEN "mm"
    ELSE IF DecLt(y, Dec(10, -6)) /\ DecGeq(y, Dec(10, -9)) THEN "µm"
    ELSE IF DecLt(y, Dec(10, -9)) /\ DecGeq(y, Dec(10, -12)) THEN "nm"
    ELSE "pm"

-----------------------------------------------------------------------------
(* tia                                                                     *)

\* re.findall(r'[a-z]+',text)[0] on the unit of the recognised text: 'µ' is
\* no letter of a-z
ocr_unit(u) == IF u = "µm" THEN "m" ELSE u

\* the recogniser reads the text, or one of its three failures happens, or
\* the memory runs out while it works, and the user types a unit and a value
\* that is a number or not; without a data bar the user is asked for the
\* value alone
Envs(f) ==
    IF ~f.scalebar THEN {Env("", "", Dec(5, -1), n) : n \in BOOLEAN}
    ELSE {Env("ok", "", Zero, FALSE)} \cup
         {Env(o, "nm", Dec(50, 0), TRUE) :
            o \in {"ImportError", "FileNotFoundError", "garbage",
                   "MemoryError"}} \cup
         {Env("garbage", "furlong", Dec(50, 0), TRUE),
          Env("garbage", "nm", Dec(50, 0), FALSE)}

\* tia.get_pixelsize_legacy(): f the file, a the attributes, env what the
\* text recogniser does and what the user types when prompted
tia_get_pixelsize_legacy(f, a, env) ==
    IF ~f.scalebar
    THEN \* 'Please give pixelsize in nm: '
         IF ~env.numeric
         THEN Fail("ValueError", a, 1, <<"scalebar_not_found">>)
         ELSE Outcome("ok", PxNum(env.value), "nm",
                      SetPixelsize(a, PxNum(env.value), "nm"),
                      1, <<"scalebar_not_found">>)
    ELSE LET warns ==
                 CASE env.ocr = "ok" -> << >>
                   [] env.ocr = "ImportError" -> <<"pytesseract_not_installed">>
                   [] env.ocr = "FileNotFoundError" -> <<"tesseract_not_found">>
                   [] OTHER -> <<"could_not_read">>
             prompts == IF env.ocr = "ok" THEN 0 ELSE 2
             unit0 == IF env.ocr = "ok" THEN ocr_unit(f.bartext.unit)
                      ELSE env.unit
             val == IF env.ocr = "ok" THEN f.bartext.value ELSE env.value
             unit == IF unit0 = "um" THEN "µm" ELSE unit0
             px == PxNum(DecDiv(val, Dec(f.barlength, 0)))
         IN  IF env.ocr # "ok" /\ ~env.numeric
             THEN Fail("ValueError", a, prompts, warns)
             ELSE Outcome("ok", px, unit, SetPixelsize(a, px, unit),
                          prompts, warns)

\* value*10**n for a list value: a float n-th power raises, an int one
\* repeats the list (the length is not kept), which may exhaust the memory
ListTimesPow10(d) ==
    IF d < 0 THEN {"TypeError"} ELSE IF d >= 9 THEN {"ok", "MemoryError"}
    ELSE {"ok"}

\* the end of tia.get_pixelsize (lines 215-247) for the list the legacy branch
\* leaves in pixelsize_x: the set of ways it can end
tia_finish_list(px, a, convert, prompts, warns) ==
    IF convert = None
    THEN \* pixelsize_x >= 1e-3 compares a list with a float
         {Fail("TypeError", a, prompts, warns)}
    ELSE LET c == alias(convert)
         IN  IF c = "m"
             THEN {Outcome("ok", px, c, SetPixelsize(a, px, c), prompts, warns)}
             ELSE IF c = "" \/ ~In(c, units)
             THEN {Fail("ValueError", a, prompts, warns)}
             ELSE {IF st = "ok"
                   THEN Outcome("ok", px, c, SetPixelsize(a, px, c),
                                prompts, warns)
                   ELSE Fail(st, a, prompts, warns) :
                   st \in ListTimesPow10(index(units, "m") - index(units, c))}

\* the end of tia.get_pixelsize for a float in meter per pixel
tia_finish(x, a, convert, prompts, warns) ==
    IF convert = None
    THEN LET u == tia_auto(x)
             px == PxNum(Mul10(x, u.shift))
         IN  Outcome("ok", px, u.unit, SetPixelsize(a, px, u.unit),
                     prompts, warns)
    ELSE LET c == _convert_length(x, "m", convert)
         IN  IF c.status # "ok" THEN Fail(c.status, a, prompts, warns)
             ELSE Outcome("ok", PxNum(c.value), c.unit,
                          SetPixelsize(a, PxNum(c.value), c.unit),
                          prompts, warns)

\* pixels per n base units -> meter per pixel
tia_meters(baseunit, res) ==
    IF baseunit = 2 THEN DecDiv(DecMul(Dec(254, -4), res.den), res.num)
    ELSE DecDiv(DecMul(Dec(1, -2), res.den), res.num)

\* the legacy branch of tia.get_pixelsize (lines 206-213)
tia_legacy_branch_env(f, a, convert, env, warns) ==
    LET r == tia_get_pixelsize_legacy(f, a, env)
        w == warns \o <<"fallback_legacy">> \o r.warns
        c == _convert_length(r.px.v0, r.unit, "cm")
    IN  IF r.status # "ok" THEN {Fail(r.status, r.attr, r.prompts, w)}
        ELSE IF c.status # "ok" THEN {Fail(c.status, r.attr, r.prompts, w)}
        ELSE IF c.value = Zero
             THEN {Fail("ZeroDivisionError", r.attr, r.prompts, w)}
        ELSE tia_finish_list(PxList(DecDiv(One, c.value)), r.attr, convert,
                             r.prompts, w)
tia_legacy_branch(f, a, convert, warns) ==
    UNION {{With(env, r) : r \in tia_legacy_branch_env(f, a, convert, env, warns)} :
            env \in Envs(f)}

\* tia.get_pixelsize(convert): the set of ways the call can end
tia_get_pixelsize(f, a, convert) ==
    CASE f.layout = "tia" ->
            IF f.baseunit \in {2, 3}
            THEN {tia_finish(tia_meters(f.baseunit, f.res), a, convert,
                             0, << >>)}
            ELSE tia_legacy_branch(f, a, convert, << >>)
      [] f.layout = "sis" -> {Fail("KeyError", a, 0, << >>)}
      [] f.layout = "imagej" ->
            LET fact == _convert_length(One, f.unit, "cm")
            IN  IF fact.status # "ok"
                THEN {Fail(fact.status, a, 0, <<"imagej">>)}
                ELSE {tia_finish(
                        tia_meters(3, [num |-> f.res.num,
                                       den |-> DecMul(f.res.den, fact.value)]),
                        a, convert, 0, <<"imagej">>)}
      [] f.layout = "std" ->
            IF f.baseunit \in {2, 3}
            THEN {tia_finish(tia_meters(f.baseunit, f.res), a, convert,
                             0, <<"unusual_format">>)}
            ELSE tia_legacy_branch(f, a, convert, <<"unusual_format">>)
      [] OTHER -> tia_legacy_branch(f, a, convert, << >>)

-----------------------------------------------------------------------------
(* sis, velox_image, helios, phenom, xl30sfeg, ZeissSEM                    *)

\* sis.get_pixelsize(convert)
sis_get_pixelsize(f, a, convert) ==
    IF f.layout # "sis" \/ -12 >= f.exp \/ f.exp > 1
    THEN Fail("KeyError", a, 0, << >>)
    ELSE LET x == Mul10(f.px0, f.exp)
         IN  IF convert = None
             THEN LET u == sis_auto(x)
                      px == PxNum(Mul10(x, u.shift))
                  IN  Outcome("ok", px, u.unit, SetPixelsize(a, px, u.unit),
                              0, << >>)
             ELSE LET c == _convert_length(x, "m", convert)
                  IN  IF c.status # "ok" THEN Fail(c.status, a, 0, << >>)
                      ELSE Outcome("ok", PxNum(c.value), c.unit,
                                   SetPixelsize(a, PxNum(c.value), c.unit),
                                   0, << >>)

\* velox_image.get_pixelsize(convert): [height, width] in the unit convert
velox_image_get_pixelsize(f, a, convert) ==
    IF f.layout # "velox" THEN Fail("KeyError", SetMetadata(a), 0, << >>)
    ELSE LET a1 == SetMetadata(a)
             conv == IF convert = None THEN velox_auto(f.px0) ELSE convert
             h == _convert_length(f.px0, f.unit, conv)
             w == _convert_length(f.px1, f.unit, conv)
             px == PxPair(h.value, w.value)
         IN  IF h.status # "ok" THEN Fail(h.status, a1, 0, << >>)
             ELSE IF w.status # "ok" THEN Fail(w.status, a1, 0, << >>)
             ELSE Outcome("ok", px, conv, SetPixelsize(a1, px, conv),
                          0, << >>)

\* helios.get_pixelsize(): (x, y) from Scan or else, whatever went wrong
\* with Scan, from BinaryResult; in the layout "scantext" the text of
\* Scan.PixelWidth is not a number and BinaryResult holds px0 and px1
helios_get_pixelsize(f, a) ==
    IF ~a.metadata /\ f.layout = "none"
    THEN \* get_metadata() warned and returned None
         Fail("AttributeError", a, 0, <<"no_metadata">>)
    ELSE LET a1 == SetMetadata(a)
         IN  IF f.layout \notin {"scan", "binary", "scantext"}
             THEN Fail("AttributeError", a1, 0, << >>)
             ELSE LET u == helios_auto(f.px0)
                      px == PxPair(Mul10(f.px0, u.shift), Mul10(f.px1, u.shift))
                  IN  Outcome("ok", px, u.unit, SetPixelsize(a1, px, u.unit),
                              0, << >>)

\* phenom.get_pixelsize(): (y, x) in the unit of the pixelWidth element
phenom_get_pixelsize(f, a) ==
    IF ~a.metadata /\ f.layout = "none" THEN Fail("ParseError", a, 0, << >>)
    ELSE LET a1 == SetMetadata(a)
             u == IF f.unit = "um" THEN "µm" ELSE f.unit
             px == PxPair(f.px1, f.px0)
         IN  IF f.layout # "phenom" THEN Fail("AttributeError", a1, 0, << >>)
             ELSE Outcome("ok", px, u, SetPixelsize(a1, px, u), 0, << >>)

\* xl30sfeg.get_pixelsize(): the value of flMagn, in µm
xl30sfeg_get_pixelsize(f, a) ==
    LET a1 == SetMetadata(a)
    IN  IF f.layout # "xl30" THEN Fail("AttributeError", a1, 0, << >>)
        ELSE Outcome("ok", PxNum(f.px0), "µm",
                     SetPixelsize(a1, PxNum(f.px0), "µm"), 0, << >>)

\* ZeissSEM.get_pixelsize(): value and unit of 'Image Pixel Size'; neither
\* is stored on the instance
ZeissSEM_get_pixelsize(f, a) ==
    IF ~a.metadata /\ f.layout = "none" THEN Fail("KeyError", a, 0, << >>)
    ELSE LET a1 == SetMetadata(a)
         IN  IF f.layout # "zeiss" THEN Fail("AttributeError", a1, 0, << >>)
             ELSE Outcome("ok", PxNum(f.px0), f.unit, a1, 0, << >>)

\* get_pixelsize of the class: the set of ways the call can end
get_pixelsize(c, f, a, convert) ==
    CASE c = "tia" -> tia_get_pixelsize(f, a, convert)
      [] c = "sis" -> {sis_get_pixelsize(f, a, convert)}
      [] c = "velox_image" -> {velox_image_get_pixelsize(f, a, convert)}
      [] c = "helios" -> {helios_get_pixelsize(f, a)}
      [] c = "phenom" -> {phenom_get_pixelsize(f, a)}
      [] c = "xl30sfeg" -> {xl30sfeg_get_pixelsize(f, a)}
      [] c = "ZeissSEM" -> {ZeissSEM_get_pixelsize(f, a)}

\* the classes whose get_pixelsize takes a convert argument
TakesConvert == {"tia", "sis", "velox_image"}
Classes == {"tia", "sis", "velox_image", "helios", "phenom", "xl30sfeg",
            "ZeissSEM"}

-----------------------------------------------------------------------------
(* utility._export_with_scalebar                                           *)

\* the list of 'nice' values for the size of the bar
lst ==
    << Dec(1, -2), Dec(2, -2), Dec(25, -3), Dec(3, -2), Dec(4, -2), Dec(5, -2),
       Dec(1, -1), Dec(2, -1), Dec(25, -2), Dec(3, -1), Dec(4, -1), Dec(5, -1),
       Dec(1, 0), Dec(2, 0), Dec(25, -1), Dec(3, 0), Dec(4, 0), Dec(5, 0),
       Dec(1, 1), Dec(2, 1), Dec(25, 0), Dec(3, 1), Dec(4, 1), Dec(5, 1),
       Dec(1, 2), Dec(2, 2), Dec(25, 1), Dec(3, 2), Dec(4, 2), Dec(5, 2),
       Dec(1, 3), Dec(2, 3), Dec(25, 2), Dec(3, 3), Dec(4, 3), Dec(5, 3),
       Dec(6, 3), Dec(8, 3), Dec(1, 4) >>

\* a variant that rounds down: the index of the largest value not above t
argmin_floor(l, t) ==
    IF DecLt(t, l[1]) THEN 1
    ELSE CHOOSE i \in 1..Len(l) :
            /\ DecGeq(t, l[i])
            /\ \A j \in (i + 1)..Len(l) : DecLt(t, l[j])
\* min(range(len(l)), key=lambda i: abs(l[i]-t)): the first index of the
\* smallest difference, found from left to right
RECURSIVE argmin_from(_, _, _, _)
argmin_from(l, t, i, best) ==
    IF i > Len(l) THEN best
    ELSE IF DecLt(DecAbsDiff(l[i], t), DecAbsDiff(l[best], t))
         THEN argmin_from(l, t, i + 1, i)
         ELSE argmin_from(l, t, i + 1, best)
argmin_abs(l, t) == argmin_from(l, t, 2, 1)

\* scale*0.12*exportim.shape[1]*pixelsize
bar_target(scale, width, pixelsize) ==
    DecMul(DecMul(DecMul(scale, Dec(12, -2)), Dec(width, 0)), pixelsize)

\* the size of the bar when barsize is None
auto_barsize(scale, width, pixelsize) ==
    lst[argmin_abs(lst, bar_target(scale, width, pixelsize))]

\* filename.rpartition('.')[0]+'_settings.txt'
settings_name(filename) == Name(filename.stem \o "_settings", "txt")

\* how a call of the renderer ended: the files it wrote, in order, the bar
\* it laid out and the width and height of the image it made
Rendered(status, wrote, px, u, barsize) ==
    [status |-> status, wrote |-> wrote, px |-> px, unit |-> u,
     barsize |-> barsize, shape |-> <<0, 0>>, origin |-> <<0, 0>>]

\* an image array: exportim.ndim and exportim.shape
Image(ndim, channels, width, height) ==
    [ndim |-> ndim, channels |-> channels, width |-> width, height |-> height]

\* a crop argument: None, (x, y, width, height) or ((xmin, ymin), (xmax, ymax))
Crop(form, a, b, c, d) == [form |-> form, v |-> <<a, b, c, d>>]
NoCrop == Crop("none", 0, 0, 0, 0)

\* a[start:stop] on an axis of n pixels: the first pixel and the length
py_slice(n, start, stop) ==
    LET lo == IF start < 0 THEN Max(start + n, 0) ELSE Min(start, n)
        hi == IF stop < 0 THEN Max(stop + n, 0) ELSE Min(stop, n)
    IN  [first |-> lo, len |-> Max(hi - lo, 0)]

\* exportim[crop[0][1]:crop[1][1], crop[0][0]:crop[1][0]] (lines 173-180)
crop_region(exportim, crop) ==
    LET v == crop.v
        c == IF crop.form = "xywh"
             THEN <<v[1], v[2], v[1] + v[3], v[2] + v[4]>>
             ELSE v
        cols == py_slice(exportim.width, c[1], c[3])
        rows == py_slice(exportim.height, c[2], c[4])
    IN  IF crop.form = "none"
        THEN [origin |-> <<0, 0>>, shape |-> <<exportim.width, exportim.height>>]
        ELSE [origin |-> <<cols.first, rows.first>>,
              shape |-> <<cols.len, rows.len>>]

\* the font files ImageFont.truetype finds
FontsInstalled == {"arialbd.ttf"}

\* _export_with_scalebar(exportim, pixelsize, unit, filename, **k): the set
\* of ways the call can end
_export_with_scalebar(exportim, pixelsize, unit, filename, k) ==
    LET w0 == IF k.store_settings THEN <<settings_name(filename)>> ELSE << >>
        grey == \/ exportim.ndim = 2
                \/ exportim.ndim = 3 /\ exportim.channels \in {3, 4}
        drawn == k.draw_bar \/ k.draw_text
        converting == k.convert # None /\ drawn
        c == IF converting /\ pixelsize.kind # "list"
             THEN _convert_length(pixelsize.v0, unit, k.convert)
             ELSE Returned(pixelsize.v0, unit)
        region == crop_region(exportim, k.crop)
        barsize == IF k.barsize = None
                   THEN auto_barsize(k.scale, region.shape[1], c.value)
                   ELSE k.barsize
        w1 == IF k.save THEN w0 \o <<filename>> ELSE w0
        Ends(status, wrote, px, u, b) ==
            [Rendered(status, wrote, px, u, b)
                EXCEPT !.shape = region.shape, !.origin = region.origin]
    IN  IF ~grey
        THEN {Rendered("ValueError", w0, PxNone, unit, Zero)}
        ELSE IF pixelsize.kind = "list"
        THEN \* a list where a float is expected: no product of it with a
             \* float, no division by it
             LET cc == alias(k.convert)
                 u == alias(unit)
             IN  IF converting /\ cc # u /\ (cc = "" \/ u = "" \/ ~In(cc, units)
                                             \/ ~In(u, units))
                 THEN {Rendered("ValueError", w0, PxNone, unit, Zero)}
                 ELSE IF converting /\ cc # u
                 THEN {Rendered(IF st = "ok" THEN "TypeError" ELSE st,
                                w0, PxNone, unit, Zero) :
                       st \in ListTimesPow10(index(units, u) - index(units, cc))}
                 ELSE {Rendered("TypeError", w0, PxNone, unit, Zero)}
        ELSE IF c.status # "ok"
        THEN {Rendered(c.status, w0, PxNone, unit, Zero)}
        ELSE IF k.intensity_range = None /\ 0 \in {region.shape[1], region.shape[2]}
        THEN \* exportim.min() of an empty array
             {Ends("ValueError", w0, PxNum(c.value), c.unit, Zero)}
        ELSE IF k.intensity_range \notin {None, "auto", "automatic", "pair"}
        THEN {Ends("TypeError", w0, PxNum(c.value), c.unit, Zero)}
        ELSE IF c.value = Zero
        THEN {Rendered("ZeroDivisionError", w0, PxNone, c.unit, Zero)}
        ELSE IF k.draw_text /\ k.font \notin FontsInstalled
        THEN {Ends("OSError", w0, PxNum(c.value), c.unit, barsize)}
        ELSE IF drawn /\ k.loc \notin {0, 1, 2, 3}
        THEN {Ends("ValueError", w0, PxNum(c.value), c.unit, barsize)}
        ELSE {Ends("ok", w1, PxNum(c.value), c.unit, barsize)}

-----------------------------------------------------------------------------
(* An instance and the calls made on it                                    *)

MaxCalls == 2
MaxDecade == 1

\* self.filename, and the names a caller may pass
Source == Name("img", "tif")
NoFilename == Name("", "")
FilenameArgs == {NoFilename, Source, Name("out", "png")}

\* filename when the caller passes none
default_filename(c) ==
    IF c = "velox_image" THEN Name(Source.stem \o "_image-00_scalebar", "png")
    ELSE Name(Source.stem \o "_scalebar", "png")

\* a source file: the tags or metadata that carry the calibration, the size
\* of the image and the data bar
File(layout, res, baseunit, unit, px0, px1, exp, scalebar) ==
    [layout |-> layout, res |-> res, baseunit |-> baseunit, unit |-> unit,
     px0 |-> px0, px1 |-> px1, exp |-> exp, scalebar |-> scalebar,
     barlength |-> 100, bartext |-> [value |-> Dec(50, 0), unit |-> "nm"],
     width |-> 1000]
NoRes == [num |-> One, den |-> One]

\* the resolution tags of a file with x meter per pixel: pixels per n cm
TagsFor(x) ==
    IF x.e + 2 >= 0 THEN [num |-> One, den |-> Mul10(x, 2)]
    ELSE [num |-> Dec(1, -(x.e + 2)), den |-> Dec(x.m, 0)]

\* the files of the calls: one or two of every layout a class reads
Files(c) ==
    CASE c = "tia" ->
            {File("tia", TagsFor(Dec(2, -9)), 3, "", Zero, Zero, 0, TRUE),
             File("tia", [num |-> Dec(1, 8), den |-> Dec(1, 2)], 2, "", Zero,
                  Zero, 0, TRUE),
             File("tia", NoRes, 1, "", Zero, Zero, 0, TRUE),
             File("sis", NoRes, 1, "", Zero, Zero, 0, FALSE),
             File("imagej", [num |-> Dec(5, 0), den |-> Dec(1, 1)], 1, "nm",
                  Zero, Zero, 0, FALSE),
             File("std", TagsFor(Dec(2, -9)), 3, "", Zero, Zero, 0, FALSE),
             File("none", NoRes, 1, "", Zero, Zero, 0, TRUE),
             File("none", NoRes, 1, "", Zero, Zero, 0, FALSE)}
      [] c = "sis" ->
            {File("sis", NoRes, 1, "", Dec(2, 0), Zero, -9, FALSE),
             File("sis", NoRes, 1, "", Dec(2, 0), Zero, -12, FALSE),
             File("none", NoRes, 1, "", Zero, Zero, 0, FALSE)}
      [] c = "velox_image" ->
            {File("velox", NoRes, 1, "m", Dec(2, -9), Dec(2, -9), 0, FALSE),
             File("velox", NoRes, 1, "m", Dec(2, -9), Dec(4, -9), 0, FALSE),
             File("none", NoRes, 1, "", Zero, Zero, 0, FALSE)}
      [] c = "helios" ->
            {File("scan", NoRes, 1, "", Dec(2, -9), Dec(2, -9), 0, FALSE),
             File("binary", NoRes, 1, "", Dec(2, -9), Dec(4, -9), 0, FALSE),
             File("scantext", NoRes, 1, "", Dec(2, -9), Dec(4, -9), 0, FALSE),
             File("other", NoRes, 1, "", Zero, Zero, 0, FALSE),
             File("none", NoRes, 1, "", Zero, Zero, 0, FALSE)}
      [] c = "phenom" ->
            {File("phenom", NoRes, 1, "um", Dec(2, -3), Dec(4, -3), 0, FALSE),
             File("none", NoRes, 1, "", Zero, Zero, 0, FALSE)}
      [] c = "xl30sfeg" ->
            {File("xl30", NoRes, 1, "", Dec(2, -3), Zero, 0, FALSE),
             File("none", NoRes, 1, "", Zero, Zero, 0, FALSE)}
      [] c = "ZeissSEM" ->
            {File("zeiss", NoRes, 1, "nm", Dec(2, 0), Zero, 0, FALSE),
             File("none", NoRes, 1, "", Zero, Zero, 0, FALSE)}

\* pixel sizes in meter on, just below and above every power of ten from
\* 10^-14 to 10^MaxDecade
SweepValues ==
    {Dec(m, e) : m \in {1, 2, 99}, e \in (-14)..MaxDecade}

\* the power of ten a sis file stores with x meter per pixel: -11 to 1
SisExp(x) == Max(-11, Min(1, x.e))

\* the files of one resolver call: a sweep of pixel sizes in meter
SweepFiles(c) ==
    CASE c = "tia" ->
            {File("tia", TagsFor(x), 3, "", Zero, Zero, 0, TRUE) :
                x \in SweepValues}
      [] c = "sis" ->
            {File("sis", NoRes, 1, "", Dec(x.m, x.e - SisExp(x)), Zero,
                  SisExp(x), FALSE) : x \in SweepValues}
      [] c = "velox_image" ->
            {File("velox", NoRes, 1, "m", x, x, 0, FALSE) : x \in SweepValues}
      [] c = "helios" ->
            {File("scan", NoRes, 1, "", x, x, 0, FALSE) : x \in SweepValues}
      [] OTHER -> {}

\* the convert arguments of the calls on an instance, and of the sweep
ConvertArgs == {None, "nm", "um", "furlong"}
SweepConvertArgs == {None, "nm", "um", "m", "km", "furlong"}
ConvertsOf(c, cs) == IF c \in TakesConvert THEN cs ELSE {None}

\* the keyword arguments of export_with_scalebar
Kwargs(save, store, convert, barsize, scale, loc, bar, text) ==
    [save |-> save, store_settings |-> store, convert |-> convert,
     barsize |-> barsize, scale |-> scale, loc |-> loc, draw_bar |-> bar,
     draw_text |-> text, crop |-> NoCrop, intensity_range |-> None,
     font |-> "arialbd.ttf"]
NoKwargs == Kwargs(TRUE, FALSE, None, None, One, 2, TRUE, TRUE)
KwargsArgs ==
    {Kwargs(TRUE, TRUE, c, None, One, 2, TRUE, TRUE) :
        c \in {None, "nm", "furlong"}}
    \cup {Kwargs(FALSE, FALSE, None, None, One, 2, TRUE, TRUE),
          Kwargs(TRUE, TRUE, None, None, One, 4, TRUE, TRUE),
          Kwargs(TRUE, TRUE, "furlong", None, One, 2, FALSE, FALSE)}

\* the calls of export_with_scalebar: every filename with the settings
\* stored, and every choice of keywords with the default filename
ExportArgs ==
    {<<fn, Kwargs(TRUE, TRUE, None, None, One, 2, TRUE, TRUE)>> :
        fn \in FilenameArgs}
    \cup {<<NoFilename, k>> : k \in KwargsArgs}

Args(op, convert, filename, k) ==
    [op |-> op, convert |-> convert, filename |-> filename, k |-> k]
NoArgs == Args("", None, NoFilename, NoKwargs)

\* what a call did: how it ended, the pixel size and unit it returned or
\* used, whether it ran get_pixelsize, the prompts and warnings with what
\* the recogniser and the user did, the files written and the bar
Last(op, status, px, u, ran, r, wrote, barsize) ==
    [op |-> op, status |-> status, px |-> px, unit |-> u, ran |-> ran,
     prompts |-> r.prompts, warns |-> r.warns, env |-> r.env,
     wrote |-> wrote, barsize |-> barsize, shape |-> <<0, 0>>,
     origin |-> <<0, 0>>]
NoLast == Last("", "", PxNone, "", FALSE, Fail("", NoAttr, 0, << >>), << >>,
               Zero)

\* history: a get_pixelsize has returned; the runs of get_pixelsize since
History(resolved, runs) == [resolved |-> resolved, runs |-> runs]

NoConversion ==
    /\ value = Zero /\ unitA = "" /\ unitB = "" /\ unitC = ""
    /\ rAC = Pending /\ rAB = Pending /\ rABC = Pending /\ rCanon = Pending

Fresh ==
    /\ NoConversion
    /\ snap = NoBar
    /\ attr = NoAttr /\ disk = {} /\ args = NoArgs /\ last = NoLast
    /\ hist = History(FALSE, 0)

\* a fresh instance on one of the files, and a caller with MaxCalls calls
Init ==
    /\ Fresh
    /\ cls \in Classes
    /\ file \in Files(cls)
    /\ budget = MaxCalls

\* a fresh instance on a file of the sweep or of the layouts, and a caller
\* with one call
InitResolve ==
    /\ Fresh
    /\ cls \in Classes
    /\ file \in SweepFiles(cls) \cup Files(cls)
    /\ budget = 1

Range(q) == {q[i] : i \in 1..Len(q)}

\* self.get_pixelsize(convert) ending as r
Resolve(convert, r) ==
    /\ attr' = r.attr
    /\ args' = Args("get_pixelsize", convert, NoFilename, NoKwargs)
    /\ last' = Last("get_pixelsize", r.status, r.px, r.unit, TRUE, r, << >>,
                    Zero)
    /\ hist' = History(hist.resolved \/ r.status = "ok", hist.runs + 1)
    /\ budget' = budget - 1
    /\ UNCHANGED <<cls, file, disk, convVars, barVars>>

\* self.get_pixelsize(convert) on an instance
GetPixelsize ==
    /\ budget > 0
    /\ \E convert \in ConvertsOf(cls, ConvertArgs) :
       \E r \in get_pixelsize(cls, file, attr, convert) : Resolve(convert, r)

\* self.get_pixelsize(convert) on a file of the sweep
GetPixelsizeSweep ==
    /\ budget > 0
    /\ \E convert \in ConvertsOf(cls, SweepConvertArgs) :
       \E r \in get_pixelsize(cls, file, attr, convert) : Resolve(convert, r)

\* self.get_pixelsize_legacy(), of tia
GetPixelsizeLegacy ==
    /\ budget > 0
    /\ cls = "tia"
    /\ \E env \in Envs(file) :
       LET r == With(env, tia_get_pixelsize_legacy(file, attr, env))
       IN  /\ attr' = r.attr
           /\ args' = Args("get_pixelsize_legacy", None, NoFilename, NoKwargs)
           /\ last' = Last("get_pixelsize_legacy", r.status, r.px, r.unit,
                           TRUE, r, << >>, Zero)
           /\ hist' = History(hist.resolved \/ r.status = "ok", hist.runs + 1)
    /\ budget' = budget - 1
    /\ UNCHANGED <<cls, file, disk, convVars, barVars>>

\* the pixel size passed on to the renderer: pixelsize, pixelsize[0] or
\* pixelsize[1]
passed_pixelsize(c, px) ==
    IF px.kind # "pair" THEN px
    ELSE IF c = "velox_image" THEN PxNum(px.v1)
    ELSE PxNum(px.v0)

\* a variant without the guard
overwrites_never(filename) == FALSE
\* filename==self.filename
overwrites(filename) == filename = Source

\* self.export_with_scalebar(filename, **k)
ExportWithScalebar ==
    /\ budget > 0
    /\ \E call \in ExportArgs :
       LET fn == call[1]
           k == call[2]
           cached == attr.has
           rs == IF cached
                 THEN {Outcome("ok", attr.pixelsize, attr.unit, attr, 0, << >>)}
                 ELSE get_pixelsize(cls, file, attr, None)
           filename == IF fn = NoFilename THEN default_filename(cls) ELSE fn
       IN  \E r \in rs :
           /\ attr' = r.attr
           /\ args' = Args("export_with_scalebar", None, fn, k)
           /\ hist' = IF cached THEN hist
                      ELSE History(hist.resolved \/ r.status = "ok",
                                   hist.runs + 1)
           /\ IF r.status # "ok"
              THEN /\ last' = Last("export_with_scalebar", r.status, PxNone,
                                   "", ~cached, r, << >>, Zero)
                   /\ disk' = disk
              ELSE IF overwrites(filename)
              THEN /\ last' = Last("export_with_scalebar", "ValueError", r.px,
                                   r.unit, ~cached, r, << >>, Zero)
                   /\ disk' = disk
              ELSE \E x \in _export_with_scalebar(
                                Image(2, 1, file.width, file.width),
                                passed_pixelsize(cls, r.px), r.unit,
                                filename, k) :
                   /\ last' = Last("export_with_scalebar", x.status, x.px,
                                   x.unit, ~cached, r, x.wrote, x.barsize)
                   /\ disk' = disk \cup Range(x.wrote)
    /\ budget' = budget - 1
    /\ UNCHANGED <<cls, file, convVars, barVars>>

Next == GetPixelsize \/ GetPixelsizeLegacy \/ ExportWithScalebar

Spec == Init /\ [][Next]_vars

NextResolve == GetPixelsizeSweep
SpecResolve == InitResolve /\ [][NextResolve]_vars

-----------------------------------------------------------------------------
(* tia.get_pixelsize on the TIFF tags of a file                            *)

\* a resolution tag pair with its unit tag: pixels per den base units
Resolution(num, den, baseunit) ==
    [num |-> num, den |-> den, baseunit |-> baseunit]

\* a TIFF file: the tags it has, whether tag 270 names ImageJ, the values
\* of 65450-65452 and of 282/283/296, and the data bar
Tiff(tags, imagej, triple, std, scalebar) ==
    [tags |-> tags, imagej |-> imagej, triple |-> triple, std |-> std,
     scalebar |-> scalebar]

TripleTags == {65450, 65451, 65452}
StdTags == {282, 283, 296}

\* a variant that looks at the ImageJ description first
tia_layout_imagej_first(t) ==
    IF 270 \in t.tags /\ t.imagej THEN "imagej"
    ELSE IF TripleTags \subseteq t.tags THEN "tia"
    ELSE IF 33560 \in t.tags THEN "sis"
    ELSE IF StdTags \subseteq t.tags THEN "std"
    ELSE "none"

\* the branch of lines 161-197 a file takes
tia_layout(t) ==
    IF TripleTags \subseteq t.tags THEN "tia"
    ELSE IF 33560 \in t.tags THEN "sis"
    ELSE IF 270 \in t.tags /\ t.imagej THEN "imagej"
    ELSE IF StdTags \subseteq t.tags THEN "std"
    ELSE "none"

\* the file as its branch reads it: 'unit=nm' in the ImageJ description
tia_file(t) ==
    LET layout == tia_layout(t)
        r == IF layout = "tia" THEN t.triple ELSE t.std
    IN  File(layout, [num |-> r.num, den |-> r.den], r.baseunit, "nm",
             Zero, Zero, 0, t.scalebar)

\* tia.get_pixelsize(convert) on a TIFF file: the ImageJ branch reads tags
\* 282 and 283 whether they are there or not
tia_get_pixelsize_tags(t, a, convert) ==
    IF tia_layout(t) = "imagej" /\ ~({282, 283} \subseteq t.tags)
    THEN {Fail("KeyError", a, 0, <<"imagej">>)}
    ELSE tia_get_pixelsize(tia_file(t), a, convert)

\* files with every combination of the tag groups, whole or in part, with
\* base units none, inch and centimeter
Tiffs ==
    {Tiff(T \cup S \cup D \cup R, D # {},
          Resolution(Dec(1, 8), Dec(1, 2), b1),
          Resolution(Dec(5, 8), Dec(1, 2), b2), TRUE) :
        T \in {{}, {65450, 65451}, TripleTags}, S \in {{}, {33560}},
        D \in {{}, {270}}, R \in {{}, {282, 283}, StdTags},
        b1 \in {1, 2, 3}, b2 \in {1, 2, 3}}
    \cup {Tiff({270} \cup R, FALSE, Resolution(Dec(1, 8), Dec(1, 2), 3),
               Resolution(Dec(5, 8), Dec(1, 2), 3), TRUE) :
            R \in {{}, StdTags}}

\* a fresh tia instance on one of the files, and a caller with one call
InitTags ==
    /\ Fresh
    /\ cls = "tia"
    /\ file \in Tiffs
    /\ budget = 1

\* self.get_pixelsize(convert) on a file given by its tags
GetPixelsizeTags ==
    /\ budget > 0
    /\ \E convert \in {None, "m"} :
       \E r \in tia_get_pixelsize_tags(file, attr, convert) :
          Resolve(convert, r)

NextTags == GetPixelsizeTags
SpecTags == InitTags /\ [][NextTags]_vars

-----------------------------------------------------------------------------
(* The constructors of tia and of the old names tecnai and talos           *)

\* the names an instance on a TIA file is made with: tem.tia, and tecnai
\* and talos as the package exports them; talos is the class the package
\* builds with type('talos', tecnai.__bases__, dict(tecnai.__dict__))
EntryPoints == {"tia", "tecnai", "talos"}

\* the argument of the constructor: the name of a file that exists, of one
\* that does not, or something that is not a string
CtorArgs == {"exists", "missing", "notstr"}

\* how a constructor ended, with the warnings it gave
Constructed(status, warns) == [status |-> status, warns |-> warns]

\* tia.__init__(filename)
tia_init(filename) ==
    CASE filename = "notstr" -> Constructed("TypeError", << >>)
      [] filename = "missing" -> Constructed("FileNotFoundError", << >>)
      [] OTHER -> Constructed("ok", << >>)

\* tecnai.__init__(self, filename) on an instance of the class entry: the
\* warning, then super().__init__, which is super(tecnai, self) and raises
\* when self is not an instance of tecnai
tecnai_init(entry, filename) ==
    IF entry # "tecnai"
    THEN Constructed("TypeError", <<"DeprecationWarning">>)
    ELSE Constructed(tia_init(filename).status, <<"DeprecationWarning">>)

\* entry(filename): tecnai and the talos of the package both run
\* tecnai.__init__
construct(entry, filename) ==
    IF entry = "tia" THEN tia_init(filename) ELSE tecnai_init(entry, filename)

\* the arguments of a call of a constructor
InitArgs(entry, filename) ==
    [op |-> "__init__", entry |-> entry, filename |-> filename]

\* no instance yet, and one of the TIA files
InitAlias ==
    /\ Fresh
    /\ cls = ""
    /\ file \in Files("tia")
    /\ budget = 0

\* entry(filename): on success the instance has the methods of tia and the
\* caller has MaxCalls calls
Construct ==
    /\ cls = ""
    /\ \E entry \in EntryPoints, filename \in CtorArgs :
          LET c == construct(entry, filename)
          IN  /\ args' = InitArgs(entry, filename)
              /\ last' = Last("__init__", c.status, PxNone, "", FALSE,
                              Fail("", NoAttr, 0, c.warns), << >>, Zero)
              /\ cls' = IF c.status = "ok" THEN "tia" ELSE "none"
              /\ budget' = IF c.status = "ok" THEN MaxCalls ELSE 0
    /\ UNCHANGED <<file, attr, disk, hist, convVars, barVars>>

NextAlias ==
    Construct \/ GetPixelsize \/ GetPixelsizeLegacy \/ ExportWithScalebar
SpecAlias == InitAlias /\ [][NextAlias]_vars

-----------------------------------------------------------------------------
(* The automatic size of the bar (utility.py lines 210-219)                *)

MaxTarget == 300

\* targets of up to three digits around the values of the list
BarTargets == {Dec(m, e) : m \in 1..MaxTarget, e \in (-3)..2}

\* the arguments the target is computed from
Scales == {Dec(5, -1), One, Dec(2, 0)}
Widths == {512, 1000, 1024}
PixelSizes == {Dec(m, e) : m \in {1, 2, 5, 25}, e \in (-1)..1}

InitBar ==
    /\ NoConversion
    /\ NoInstance
    /\ snap = NoBar

\* lst[min(range(len(lst)), key=lambda i: abs(lst[i]-barsize))] for a
\* barsize t
SnapTarget ==
    /\ ~snap.set
    /\ \E t \in BarTargets : snap' = Bar(TRUE, t, lst[argmin_abs(lst, t)])
    /\ UNCHANGED <<convVars, instVars>>

\* barsize_px = barsize/pixelsize
bar_length(barsize, pixelsize) == DecDiv(barsize, pixelsize)

\* barsize = scale*0.12*exportim.shape[1]*pixelsize, then the same, and the
\* length of the bar in pixels
AutoBarsize ==
    /\ ~snap.set
    /\ \E scale \in Scales, width \in Widths, pixelsize \in PixelSizes :
          LET size == auto_barsize(scale, width, pixelsize)
          IN  snap' = [Bar(TRUE, bar_target(scale, width, pixelsize), size)
                         EXCEPT !.from = "auto", !.scale = scale,
                                !.width = width, !.pixelsize = pixelsize,
                                !.length = bar_length(size, pixelsize)]
    /\ UNCHANGED <<convVars, instVars>>

\* the sizes and the place of the box (lines 239-311) in an image of nx by ny
\* pixels (resolution None): textsize is what the font gives for the text
box_layout(nx, ny, scale0, barsize_px, loc, draw_bar, draw_text, textsize) ==
    LET scale == DecHalve(DecMul(scale0, Dec(nx, 0)), 10)
        barthickness == DecMul(Dec(16, 0), scale)
        boxpad == DecMul(Dec(10, 0), scale)
        barpad == DecMul(Dec(10, 0), scale)
        fontpad == IF draw_text THEN DecMul(Dec(10, 0), scale) ELSE Zero
        fontbaseline == DecMul(Dec(10, 0), scale)
        textw == IF draw_text THEN Dec(textsize[1], 0) ELSE Zero
        texth == IF draw_text THEN DecAdd(Dec(textsize[2], 0), fontbaseline)
                 ELSE Zero
        two == Dec(2, 0)
        boxheight ==
            IF draw_text /\ draw_bar
            THEN DecAdd(DecAdd(barpad, barthickness), DecAdd(fontpad, texth))
            ELSE IF draw_bar THEN DecAdd(DecMul(two, barpad), barthickness)
            ELSE DecAdd(DecMul(two, fontpad), texth)
        boxwidth ==
            IF draw_text /\ draw_bar
            THEN DecMax(DecAdd(DecMul(two, barpad), barsize_px),
                        DecAdd(DecMul(two, fontpad), textw))
            ELSE IF draw_bar THEN DecAdd(DecMul(two, barpad), barsize_px)
            ELSE DecAdd(DecMul(two, fontpad), textw)
        right == DecSub(DecSub(Dec(nx, 0), boxpad), boxwidth)
        bottom == DecSub(DecSub(Dec(ny, 0), boxpad), boxheight)
    IN  [ok |-> loc \in {0, 1, 2, 3},
         x |-> IF loc \in {0, 2} THEN boxpad ELSE right,
         y |-> IF loc \in {0, 1} THEN boxpad ELSE bottom,
         boxwidth |-> boxwidth, boxheight |-> boxheight,
         barpad |-> barpad, fontpad |-> fontpad, textw |-> textw,
         loc |-> loc, draw_bar |-> draw_bar, draw_text |-> draw_text]

\* the images laid out and what font.getsize gives for the text
Heights == {64, 512, 1024}
LayoutWidths == {512, 1024}
TextSizes == {<<60, 24>>, <<120, 24>>}

\* the bar chosen and the box laid out for it
Layout ==
    /\ ~snap.set
    /\ \E scale \in Scales, width \in LayoutWidths, height \in Heights,
          pixelsize \in PixelSizes, loc \in 0..3, textsize \in TextSizes,
          drawn \in {<<TRUE, TRUE>>, <<TRUE, FALSE>>, <<FALSE, TRUE>>} :
          LET size == auto_barsize(scale, width, pixelsize)
              len == bar_length(size, pixelsize)
          IN  snap' = [Bar(TRUE, bar_target(scale, width, pixelsize), size)
                         EXCEPT !.from = "layout", !.scale = scale,
                                !.width = width, !.pixelsize = pixelsize,
                                !.length = len, !.height = height,
                                !.box = box_layout(width, height, scale, len,
                                                   loc, drawn[1], drawn[2],
                                                   textsize)]
    /\ UNCHANGED <<convVars, instVars>>

NextBar == SnapTarget \/ AutoBarsize \/ Layout
SpecBar == InitBar /\ [][NextBar]_vars

-----------------------------------------------------------------------------
(* Calls of utility._export_with_scalebar itself                           *)

\* the arrays passed as exportim: greyscale, colour, and two of a shape that
\* is no image
Images ==
    {Image(2, 1, 1024, 512), Image(3, 3, 1024, 512), Image(3, 2, 1024, 512),
     Image(4, 1, 1024, 512)}

\* the crops: corners counted from either edge
CropArgs ==
    {Crop("xywh", x, y, w, h) :
        x \in {-200, 100}, y \in {-100, 0}, w \in {100, 200}, h \in {50, 100}}
    \cup {Crop("corners", x0, 0, x1, y1) :
            x0 \in {-200, 100}, x1 \in {-100, 300}, y1 \in {-50, 100}}

\* the keyword arguments: every crop with the other defaults, and without a
\* crop every choice of the arguments a failure depends on
RenderKwargs ==
    {[Kwargs(TRUE, FALSE, None, None, One, 2, TRUE, TRUE) EXCEPT !.crop = c] :
        c \in CropArgs}
    \cup {[Kwargs(sv, st, cv, None, One, loc, d[1], d[2])
              EXCEPT !.intensity_range = ir, !.font = f] :
            sv \in BOOLEAN, st \in BOOLEAN, cv \in {None, "furlong"},
            loc \in {2, 4},
            d \in {<<TRUE, TRUE>>, <<TRUE, FALSE>>, <<FALSE, FALSE>>},
            ir \in {None, "triple"}, f \in {"arialbd.ttf", "nofont.ttf"}}

\* an array in memory and a caller with one call
InitRender ==
    /\ Fresh
    /\ cls = "utility"
    /\ file \in Images
    /\ budget = 1

\* _export_with_scalebar(exportim, 2, 'nm', 'out.png', **k)
Render ==
    /\ budget > 0
    /\ \E k \in RenderKwargs :
       \E x \in _export_with_scalebar(file, PxNum(Dec(2, 0)), "nm",
                                      Name("out", "png"), k) :
          /\ args' = Args("_export_with_scalebar", None, Name("out", "png"), k)
          /\ last' = [Last("_export_with_scalebar", x.status, x.px, x.unit,
                           FALSE, Fail("", NoAttr, 0, << >>), x.wrote,
                           x.barsize)
                         EXCEPT !.shape = x.shape, !.origin = x.origin]
          /\ disk' = disk \cup Range(x.wrote)
    /\ budget' = budget - 1
    /\ UNCHANGED <<cls, file, attr, hist, convVars, barVars>>

NextRender == Render
SpecRender == InitRender /\ [][NextRender]_vars

-----------------------------------------------------------------------------
(* get_metadata: the metadata of a file and what a call returns            *)

\* a file as get_metadata reads it: the TIFF tags it has, the <Data> blocks
\* of tag 34682 of a tia file, whether the file holds an '<?xml' declaration
\* and the XML tree in the file, the text of the metadata and the sections
\* it was written from
MetaFile(tags, blocks, decl, xml, text, doc) ==
    [tags |-> tags, blocks |-> blocks, decl |-> decl, xml |-> xml,
     text |-> text, doc |-> doc]

\* what get_metadata did: how it ended, what it returned ("None", "dict" or
\* "tree"), the dict or the tree, its warnings, and whether self.metadata
\* was set
MetaReturned(status, kind, dict, tree, warns, stored) ==
    [status |-> status, kind |-> kind, dict |-> dict, tree |-> tree,
     warns |-> warns, stored |-> stored]
MetaRaised(err) == MetaReturned(err, "None", << >>, << >>, << >>, FALSE)
WarnedNone == MetaReturned("ok", "None", << >>, << >>, <<"no_metadata">>, FALSE)

\* a <Data> block, and the entry of the dict made of it
Data(label, val, unit) ==
    [label |-> label, value |-> val, unit |-> unit]

\* d[label] = e on a dict kept as the sequence of its items
RECURSIVE dict_set(_, _, _)
dict_set(d, label, e) ==
    IF d = << >> THEN <<e>>
    ELSE IF Head(d).label = label THEN <<e>> \o Tail(d)
    ELSE <<Head(d)>> \o dict_set(Tail(d), label, e)

\* the loop over the blocks: metadatadict[label] = {value, unit}
RECURSIVE dict_of_blocks(_, _)
dict_of_blocks(blocks, d) ==
    IF blocks = << >> THEN d
    ELSE dict_of_blocks(Tail(blocks),
                        dict_set(d, Head(blocks).label, Head(blocks)))

\* the value of self.pixelsize as an entry of the dict
CachedPixelsize == Data("Pixel size", "self.pixelsize", "self.unit")

\* an element of an XML tree with its children, and a child with its text
Elem(tag, children) == [tag |-> tag, children |-> children]
Leaf(tag, text) == [tag |-> tag, text |-> text]

\* et.fromstring of the metadata of a tia file: its <Data> elements
tia_tree(blocks) ==
    [i \in 1..Len(blocks) |->
        Elem("Data", <<Leaf("Label", blocks[i].label),
                       Leaf("Value", blocks[i].value),
                       Leaf("Unit", blocks[i].unit)>>)]

\* tia.get_metadata(asdict)
tia_get_metadata(f, a, asdict) ==
    IF 34682 \notin f.tags THEN WarnedNone
    ELSE IF asdict
    THEN LET d == dict_of_blocks(f.blocks, << >>)
         IN  MetaReturned("ok", "dict",
                      IF a.has THEN dict_set(d, "Pixel size", CachedPixelsize)
                      ELSE d,
                      << >>, << >>, TRUE)
    ELSE MetaReturned("ok", "tree", << >>, tia_tree(f.blocks), << >>, TRUE)

-----------------------------------------------------------------------------
(* Strings, as sequences of characters                                     *)

NL == <<"\n">>
CRLF == <<"\r", "\n">>
Whitespace == {" ", "\t", "\r", "\n"}

\* s.startswith(p)
startswith(s, p) == Len(s) >= Len(p) /\ SubSeq(s, 1, Len(p)) = p

\* s.find(p) counted from 1: the first position of p in s, or 0
find(s, p) ==
    LET at == {i \in 1..(Len(s) - Len(p) + 1) :
                  SubSeq(s, i, i + Len(p) - 1) = p}
    IN  IF at = {} THEN 0 ELSE CHOOSE i \in at : \A j \in at : i <= j

\* s.split(sep)
RECURSIVE split_acc(_, _, _)
split_acc(s, sep, cur) ==
    IF s = << >> THEN <<cur>>
    ELSE IF startswith(s, sep)
    THEN <<cur>> \o split_acc(SubSeq(s, Len(sep) + 1, Len(s)), sep, << >>)
    ELSE split_acc(Tail(s), sep, Append(cur, Head(s)))
split(s, sep) == split_acc(s, sep, << >>)

\* s.strip()
RECURSIVE lstrip(_)
lstrip(s) ==
    IF s # << >> /\ Head(s) \in Whitespace THEN lstrip(Tail(s)) ELSE s
RECURSIVE rstrip(_)
rstrip(s) ==
    IF s # << >> /\ s[Len(s)] \in Whitespace
    THEN rstrip(SubSeq(s, 1, Len(s) - 1)) ELSE s
strip(s) == rstrip(lstrip(s))

\* s[1:-1]
inner(s) == IF Len(s) < 3 THEN << >> ELSE SubSeq(s, 2, Len(s) - 1)

\* the text a file opened in text mode gives: '\r\n' and '\r' read as '\n'
RECURSIVE universal_newlines(_)
universal_newlines(s) ==
    IF s = << >> THEN << >>
    ELSE IF startswith(s, CRLF) THEN NL \o universal_newlines(Tail(Tail(s)))
    ELSE IF Head(s) = "\r" THEN NL \o universal_newlines(Tail(s))
    ELSE <<Head(s)>> \o universal_newlines(Tail(s))

\* the lines of a file, each with its newline
RECURSIVE readlines_acc(_, _)
readlines_acc(s, cur) ==
    IF s = << >> THEN IF cur = << >> THEN << >> ELSE <<cur>>
    ELSE IF Head(s) = "\n"
    THEN <<Append(cur, "\n")>> \o readlines_acc(Tail(s), << >>)
    ELSE readlines_acc(Tail(s), Append(cur, Head(s)))
readlines(s) == readlines_acc(universal_newlines(s), << >>)

-----------------------------------------------------------------------------
(* The parsers of sectioned text                                           *)

\* et.SubElement(child, tag).text = text, child the last element of root
add_subchild(root, tag, text) ==
    [root EXCEPT ![Len(root)] =
        Elem(@.tag, Append(@.children, Leaf(tag, text)))]

\* root.find(section).find(key).text, or Absent
Absent == <<"<absent>">>
lookup(root, section, key) ==
    LET secs == {i \in 1..Len(root) : root[i].tag = section}
    IN  IF secs = {} THEN Absent
        ELSE LET s == root[CHOOSE i \in secs : \A j \in secs : i <= j]
                 keys == {i \in 1..Len(s.children) : s.children[i].tag = key}
             IN  IF keys = {} THEN Absent
                 ELSE s.children[CHOOSE i \in keys :
                                    \A j \in keys : i <= j].text

\* the loop of helios.get_metadata over the lines: bound tells whether the
\* name child is bound; the result is a status and the tree
RECURSIVE helios_lines(_, _, _)
helios_lines(lines, root, bound) ==
    IF lines = << >> THEN [status |-> "ok", tree |-> root]
    ELSE LET line == Head(lines)
             kv == split(line, <<"=">>)
         IN  IF line = << >> THEN helios_lines(Tail(lines), root, bound)
             ELSE IF line[1] = "["
             THEN helios_lines(Tail(lines),
                               Append(root, Elem(inner(line), << >>)), TRUE)
             ELSE IF ~bound THEN [status |-> "NameError", tree |-> root]
             ELSE IF Len(kv) < 2 THEN [status |-> "IndexError", tree |-> root]
             ELSE helios_lines(Tail(lines), add_subchild(root, kv[1], kv[2]),
                               bound)

\* the loop of xl30sfeg.get_metadata over the lines
RECURSIVE xl30sfeg_lines(_, _, _)
xl30sfeg_lines(lines, root, bound) ==
    IF lines = << >> THEN [status |-> "ok", tree |-> root]
    ELSE LET line == Head(lines)
             kv == split(line, <<"=">>)
         IN  IF line = << >> THEN xl30sfeg_lines(Tail(lines), root, bound)
             ELSE IF line[1] = "["
             THEN xl30sfeg_lines(Tail(lines),
                                 Append(root, Elem(strip(inner(line)), << >>)),
                                 TRUE)
             ELSE IF ~bound THEN [status |-> "NameError", tree |-> root]
             ELSE IF Len(kv) < 2 THEN [status |-> "IndexError", tree |-> root]
             ELSE xl30sfeg_lines(Tail(lines),
                                 add_subchild(root, strip(kv[1]), strip(kv[2])),
                                 bound)

\* the lines xl30sfeg.get_metadata collects: from the first line holding
\* '[DatabarData]' up to and with the first later line holding 'IonBright3'
DatabarData ==
    <<"[", "D", "a", "t", "a", "b", "a", "r", "D", "a", "t", "a", "]">>
IonBright3 == <<"I", "o", "n", "B", "r", "i", "g", "h", "t", "3">>
RECURSIVE xl30sfeg_read(_, _, _)
xl30sfeg_read(lines, read, metadata) ==
    IF lines = << >> THEN metadata
    ELSE LET line == Head(lines)
             m1 == IF read THEN metadata \o line ELSE metadata
         IN  IF read /\ find(line, IonBright3) > 0 THEN m1
             ELSE IF find(line, DatabarData) > 0
             THEN xl30sfeg_read(Tail(lines), TRUE, m1 \o line)
             ELSE xl30sfeg_read(Tail(lines), read, m1)

\* the loop of ZeissSEM.get_metadata over the lines
RECURSIVE ZeissSEM_lines(_, _, _)
ZeissSEM_lines(lines, root, bound) ==
    IF lines = << >> THEN [status |-> "ok", tree |-> root]
    ELSE LET line == Head(lines)
             kv == split(line, <<" ", "=", " ">>)
         IN  IF line = << >> THEN ZeissSEM_lines(Tail(lines), root, bound)
             ELSE IF find(line, <<"=">>) = 0
             THEN ZeissSEM_lines(Tail(lines),
                                 Append(root, Elem(strip(line), << >>)), TRUE)
             ELSE IF Len(kv) # 2 THEN [status |-> "ValueError", tree |-> root]
             ELSE IF ~bound THEN [status |-> "NameError", tree |-> root]
             ELSE ZeissSEM_lines(Tail(lines),
                                 add_subchild(root, strip(kv[1]), strip(kv[2])),
                                 bound)

-----------------------------------------------------------------------------
(* get_metadata of the classes                                             *)

\* what a parser of sectioned text made
Parsed(r) ==
    IF r.status # "ok" THEN MetaRaised(r.status)
    ELSE MetaReturned("ok", "tree", << >>, r.tree, << >>, TRUE)

\* helios.get_metadata()
helios_get_metadata(f) ==
    LET xml_root == IF 34683 \in f.tags THEN f.xml ELSE << >>
    IN  IF 34682 \notin f.tags THEN WarnedNone
        ELSE Parsed(helios_lines(split(f.text, CRLF), xml_root, FALSE))

\* phenom.get_metadata(): without '<?xml' in the file, et.fromstring('')
phenom_get_metadata(f) ==
    IF ~f.decl THEN MetaRaised("ParseError")
    ELSE MetaReturned("ok", "tree", << >>, f.xml, << >>, TRUE)

\* xl30sfeg.get_metadata()
xl30sfeg_get_metadata(f) ==
    LET read == xl30sfeg_read(readlines(f.text), FALSE, << >>)
        at == find(read, DatabarData)
        \* metadata[metadata.find('[DatabarData]'):], find giving -1
        metadata == IF read = << >> THEN << >>
                    ELSE IF at = 0 THEN <<read[Len(read)]>>
                    ELSE SubSeq(read, at, Len(read))
    IN  Parsed(xl30sfeg_lines(split(metadata, NL), << >>, FALSE))

\* ZeissSEM.get_metadata() on an instance without self.metadata
DigitChars == {"0", "1", "2", "3", "4", "5", "6", "7", "8", "9"}
ZeissSEM_get_metadata(f) ==
    IF 34118 \notin f.tags THEN MetaRaised("KeyError")
    ELSE LET metadata == SelectSeq(split(f.text, CRLF),
                             LAMBDA line :
                                 line = << >> \/ line[1] \notin DigitChars)
         IN  IF metadata = << >> THEN MetaRaised("IndexError")
             ELSE IF find(metadata[1], <<"=">>) > 0
             THEN Parsed(ZeissSEM_lines(metadata,
                             <<Elem(<<"N", "o", "n", "e">>, << >>)>>, TRUE))
             ELSE Parsed(ZeissSEM_lines(metadata, << >>, FALSE))

\* sis.get_metadata()
sis_get_metadata == MetaRaised("NotImplementedError")

\* get_metadata of class c on file f with attributes a
get_metadata(c, f, a, asdict) ==
    CASE c = "tia" -> tia_get_metadata(f, a, asdict)
      [] c = "helios" -> helios_get_metadata(f)
      [] c = "phenom" -> phenom_get_metadata(f)
      [] c = "xl30sfeg" -> xl30sfeg_get_metadata(f)
      [] c = "ZeissSEM" -> ZeissSEM_get_metadata(f)
      [] c = "sis" -> sis_get_metadata

-----------------------------------------------------------------------------
(* Calls of get_metadata                                                   *)

\* the most <Data> blocks in the metadata of a tia file
MaxBlocks == 2

\* the lists of at most MaxBlocks blocks, of two labels and two values
BlockLists ==
    UNION {[1..n -> {Data(l, v, "nm") : l \in {"A", "Pixel size"},
                                        v \in {"1", "2"}}] : n \in 0..MaxBlocks}

\* a section of sectioned text with its items, and an item
Section(name, items) == [name |-> name, items |-> items]
Item(key, val) == [key |-> key, value |-> val]

\* the text of the sections: '[name]' lines followed by 'key=value' lines,
\* the lines ended by sep, the values surrounded by pad
RECURSIVE items_text(_, _, _)
items_text(items, sep, pad) ==
    IF items = << >> THEN << >>
    ELSE Head(items).key \o <<"=">> \o pad \o Head(items).value \o pad \o sep
         \o items_text(Tail(items), sep, pad)
RECURSIVE sectioned_text(_, _, _)
sectioned_text(doc, sep, pad) ==
    IF doc = << >> THEN << >>
    ELSE <<"[">> \o Head(doc).name \o <<"]">> \o sep
         \o items_text(Head(doc).items, sep, pad)
         \o sectioned_text(Tail(doc), sep, pad)

\* [User] Date=2020 [Stage] X=1.0
User == <<"U", "s", "e", "r">>
UserDate ==
    <<Section(User, <<Item(<<"D", "a", "t", "e">>, <<"2", "0", "2", "0">>)>>),
      Section(<<"S", "t", "a", "g", "e">>,
              <<Item(<<"X">>, <<"1", ".", "0">>)>>)>>
\* [DatabarData] flMagn=50 [Vector] IonBright3=0
Databar ==
    <<Section(inner(DatabarData),
              <<Item(<<"f", "l", "M", "a", "g", "n">>, <<"5", "0">>)>>),
      Section(<<"V", "e", "c", "t", "o", "r">>,
              <<Item(IonBright3, <<"0">>)>>)>>
\* values that hold '='
UserEquals == <<Section(User, <<Item(<<"K">>, <<"a", "=", "b">>)>>)>>
DatabarEquals ==
    <<Section(inner(DatabarData), <<Item(<<"K">>, <<"a", "=", "b">>)>>)>>
Docs == {UserDate, Databar, UserEquals, DatabarEquals}

\* the texts of the sections, with '\n' or '\r\n' and with or without
\* blanks around the values
Texts ==
    {[doc |-> d, text |-> sectioned_text(d, sep, pad)] :
        d \in Docs, sep \in {NL, CRLF}, pad \in {<< >>, <<" ">>}}

\* the XML of a slice and view file of the helios: Scan.PixelWidth
HeliosXml ==
    <<Elem(<<"S", "c", "a", "n">>,
           <<Leaf(<<"P", "i", "x", "e", "l", "W", "i", "d", "t", "h">>,
                  <<"2", "e", "-", "9">>)>>)>>

\* the text of tag 34118 of a Zeiss file: a count, a name, 'key = value'
ZeissText ==
    <<"3">> \o CRLF \o <<"A", "P">> \o CRLF
    \o <<"S", "i", "z", "e", " ", "=", " ", "2", " ", "n", "m">> \o CRLF

\* a first line 'K=1', or 'K = 1' as the Zeiss text has it, before any
\* section
LeadingItem(sep) == <<"K", "=", "1">> \o sep
ZeissLeadingItem == <<"K", " ", "=", " ", "1">> \o CRLF

\* the files of the calls of get_metadata: with and without metadata, the
\* text with and without a key=value line before the first section
MetaFiles(c) ==
    CASE c = "tia" ->
            {MetaFile({34682}, b, FALSE, << >>, << >>, << >>) :
                b \in BlockLists}
            \cup {MetaFile({}, << >>, FALSE, << >>, << >>, << >>)}
      [] c = "helios" ->
            {MetaFile(t \cup {34682}, << >>, FALSE,
                      IF 34683 \in t THEN HeliosXml ELSE << >>, x.text, x.doc) :
                t \in {{}, {34683}}, x \in Texts}
            \cup {MetaFile({34683}, << >>, FALSE, HeliosXml, << >>, << >>),
                  MetaFile({}, << >>, FALSE, << >>, << >>, << >>),
                  MetaFile({34682}, << >>, FALSE, << >>,
                           LeadingItem(CRLF)
                           \o sectioned_text(UserDate, CRLF, << >>), << >>),
                  MetaFile({34682, 34683}, << >>, FALSE, HeliosXml,
                           LeadingItem(CRLF)
                           \o sectioned_text(UserDate, CRLF, << >>), << >>)}
      [] c = "phenom" ->
            {MetaFile({}, << >>, TRUE, HeliosXml, << >>, << >>),
             MetaFile({}, << >>, FALSE, << >>, << >>, << >>)}
      [] c = "xl30sfeg" ->
            {MetaFile({}, << >>, FALSE, << >>, x.text, x.doc) : x \in Texts}
            \cup {MetaFile({}, << >>, FALSE, << >>, << >>, << >>),
                  MetaFile({}, << >>, FALSE, << >>,
                           LeadingItem(NL) \o sectioned_text(Databar, NL, << >>),
                           << >>)}
      [] c = "ZeissSEM" ->
            {MetaFile({34118}, << >>, FALSE, << >>, ZeissText, << >>),
             MetaFile({34118}, << >>, FALSE, << >>,
                      ZeissLeadingItem \o ZeissText, << >>),
             MetaFile({34118}, << >>, FALSE, << >>,
                      CRLF \o ZeissLeadingItem \o ZeissText, << >>),
             MetaFile({}, << >>, FALSE, << >>, << >>, << >>)}
      [] c = "sis" ->
            {MetaFile({}, << >>, FALSE, << >>, << >>, << >>)}

MetaClasses == {"tia", "helios", "phenom", "xl30sfeg", "ZeissSEM", "sis"}

\* the arguments of a call of get_metadata
MetaArgs(asdict) == [op |-> "get_metadata", asdict |-> asdict]

\* an instance on one of the files, of a tia with or without a pixel size
\* kept from an earlier call, and a caller with one call
InitMeta ==
    /\ NoConversion
    /\ snap = NoBar
    /\ disk = {} /\ args = NoArgs /\ last = NoLast
    /\ hist = History(FALSE, 0)
    /\ cls \in MetaClasses
    /\ file \in MetaFiles(cls)
    /\ attr \in IF cls = "tia"
                THEN {NoAttr, SetPixelsize(NoAttr, PxNum(Dec(2, 0)), "nm")}
                ELSE {NoAttr}
    /\ budget = 1

\* get_metadata(), of a tia also get_metadata(asdict=True)
GetMetadata ==
    /\ budget > 0
    /\ \E asdict \in IF cls = "tia" THEN BOOLEAN ELSE {FALSE} :
          LET r == get_metadata(cls, file, attr, asdict)
          IN  /\ args' = MetaArgs(asdict)
              /\ last' = r
              /\ attr' = IF r.stored THEN SetMetadata(attr) ELSE attr
    /\ budget' = budget - 1
    /\ UNCHANGED <<cls, file, disk, hist, convVars, barVars>>

NextMeta == GetMetadata
SpecMeta == InitMeta /\ [][NextMeta]_vars

-----------------------------------------------------------------------------
(* Calibration from the data bar: tia.get_pixelsize_legacy and             *)
(* get_pixelsize of tecnai in the single-file module                       *)

\* tecnai.get_pixelsize() of electron_microscopes.py: one handler for
\* whatever goes wrong in the text recognition, its message printed
old_tecnai_get_pixelsize(f, a, env) ==
    IF ~f.scalebar
    THEN IF ~env.numeric
         THEN Fail("ValueError", a, 1, <<"scalebar_not_found">>)
         ELSE Outcome("ok", PxNum(env.value), "nm",
                      SetPixelsize(a, PxNum(env.value), "nm"),
                      1, <<"scalebar_not_found">>)
    ELSE LET read == env.ocr = "ok"
             warns == IF read THEN << >> ELSE <<"could_not_read">>
             prompts == IF read THEN 0 ELSE 2
             unit0 == IF read THEN ocr_unit(f.bartext.unit) ELSE env.unit
             val == IF read THEN f.bartext.value ELSE env.value
             unit == IF unit0 = "um" THEN "µm" ELSE unit0
             px == PxNum(DecDiv(val, Dec(f.barlength, 0)))
         IN  IF ~read /\ ~env.numeric
             THEN Fail("ValueError", a, prompts, warns)
             ELSE Outcome("ok", px, unit, SetPixelsize(a, px, unit),
                          prompts, warns)

\* the calibration from the data bar of the two modules
legacy(c, f, a, env) ==
    IF c = "tia" THEN tia_get_pixelsize_legacy(f, a, env)
    ELSE old_tecnai_get_pixelsize(f, a, env)

\* what the console shows during r, in order: in both functions a
\* warning comes first and the prompts follow it
console(r) ==
    [i \in 1..Len(r.warns) |-> "warning"]
    \o [i \in 1..r.prompts |-> "prompt"]

\* the failures of the text recognition: library not installed, engine
\* not found, text not read
OcrFailures == {"ImportError", "FileNotFoundError", "garbage"}

\* an instance of tia or of the tecnai of electron_microscopes.py on a TIA
\* file with a data bar, and a caller with one call
InitLegacy ==
    /\ Fresh
    /\ cls \in {"tia", "electron_microscopes.tecnai"}
    /\ file \in {f \in SweepFiles("tia") \cup Files("tia") : f.scalebar}
    /\ budget = 1

\* get_pixelsize_legacy() of tia, get_pixelsize() of the old tecnai
Calibrate ==
    /\ budget > 0
    /\ \E env \in Envs(file) :
       LET r == With(env, legacy(cls, file, attr, env))
       IN  /\ attr' = r.attr
           /\ args' = Args("calibrate", None, NoFilename, NoKwargs)
           /\ last' = Last("calibrate", r.status, r.px, r.unit, TRUE, r,
                           << >>, Zero)
           /\ hist' = History(hist.resolved \/ r.status = "ok", hist.runs + 1)
    /\ budget' = budget - 1
    /\ UNCHANGED <<cls, file, disk, convVars, barVars>>

NextLegacy == Calibrate
SpecLegacy == InitLegacy /\ [][NextLegacy]_vars

-----------------------------------------------------------------------------
(* The intensity rescaling of _export_with_scalebar (lines 185-208)        *)

\* an integer data type: its least and greatest value
DType(name, lo, hi) == [name |-> name, lo |-> lo, hi |-> hi]
uint8 == DType("uint8", 0, 255)
int16 == DType("int16", -32768, 32767)

\* x stored in type t by an integer operation: modulo 2^w
wrap(x, t) == ((x - t.lo) % (t.hi - t.lo + 1)) + t.lo

\* a float n/d stored in an integer type: the fraction is dropped
trunc(n, d) ==
    LET an == IF n < 0 THEN -n ELSE n
        ad == IF d < 0 THEN -d ELSE d
    IN  IF (n < 0) = (d < 0) THEN an \div ad ELSE -(an \div ad)

\* a float x stored in type t: outside of the type the C cast is undefined
cast(x, t) == IF x \in t.lo..t.hi THEN {x} ELSE {wrap(x, t), t.lo}

\* the bounds of the rescaling in halves, and what they are: numpy scalars
\* of the type of the image ("np"), Python ints ("int") or floats ("float")
Bounds(kind, lo2, hi2) == [kind |-> kind, lo2 |-> lo2, hi2 |-> hi2]

\* an image of two pixels
Pixels(t, a, b) == [dtype |-> t, px |-> <<a, b>>]
im_min(im) == IF im.px[1] <= im.px[2] THEN im.px[1] ELSE im.px[2]
im_max(im) == IF im.px[1] <= im.px[2] THEN im.px[2] ELSE im.px[1]

\* an explicit intensity range (low, high)
Pair(lo, hi) == [kind |-> "pair", lo |-> lo, hi |-> hi]
NoPair(kind) == [kind |-> kind, lo |-> 0, hi |-> 0]

\* lines 186-195: the bounds for intensity_range r; a percentile is some
\* float between the least and the greatest pixel
intensity_bounds(im, r) ==
    CASE r.kind = "none" -> {Bounds("np", 2 * im_min(im), 2 * im_max(im))}
      [] r.kind = "auto" ->
            {Bounds("float", lo2, hi2) :
                lo2 \in {2 * im_min(im), 2 * im_min(im) + 1},
                hi2 \in {2 * im_max(im) - 1, 2 * im_max(im)}}
      [] OTHER -> {Bounds("int", 2 * r.lo, 2 * r.hi)}

\* numpy is "1" (a Python int that does not fit the type of the image
\* makes the operation run in a wider type, the result is stored modulo
\* 2^w) or "2" (such an int is an OverflowError)
overflows(t, b, numpy) ==
    b.kind = "int" /\ trunc(b.lo2, 2) \notin t.lo..t.hi /\ numpy = "2"

\* the values the rescaling can leave in pixel p
rescale_pixel(p, t, b) ==
    LET lo == trunc(b.lo2, 2)
        \* exportim[exportim < imin] = imin
        clipped == IF 2 * p < b.lo2 THEN wrap(lo, t) ELSE p
        \* exportim[:,:] = exportim[:,:] - imin
        shifted == IF b.kind = "float"
                   THEN cast(trunc(2 * clipped - b.lo2, 2), t)
                   ELSE {wrap(clipped - lo, t)}
        \* imax = imax - imin
        imax2 == IF b.kind = "np" THEN 2 * wrap(trunc(b.hi2 - b.lo2, 2), t)
                 ELSE b.hi2 - b.lo2
    IN  UNION {IF ~(2 * x < imax2) THEN {255}
               ELSE {y % 256 : y \in cast(trunc(x * 510, imax2), t)} :
                   x \in shifted}

\* lines 197-208 on an image of two pixels
rescale(im, b, numpy) ==
    LET o1 == rescale_pixel(im.px[1], im.dtype, b)
        o2 == rescale_pixel(im.px[2], im.dtype, b)
    IN  IF overflows(im.dtype, b, numpy)
        THEN {[status |-> "OverflowError", out |-> <<0, 0>>, bounds |-> b]}
        ELSE {[status |-> "ok", out |-> <<a, c>>, bounds |-> b] :
                 a \in o1, c \in o2}

\* images of unsigned 8 bit and of signed 16 bit integers
IntImages ==
    {Pixels(uint8, a, c) : a, c \in {0, 10, 100, 250, 255}}
    \cup {Pixels(int16, a, c) : a, c \in {-30000, -100, 0, 100, 30000}}

\* the ranges asked for: min and max, percentiles, and pairs low < high
\* inside the type, below it and above it
IntensityRanges(t) ==
    {NoPair("none"), NoPair("auto")}
    \cup {Pair(lo, hi) : lo \in {t.lo - 10, 10}, hi \in {100, t.hi + 45}}

\* an image in memory and a caller with one call
InitIntensity ==
    /\ Fresh
    /\ cls = "utility"
    /\ file \in IntImages
    /\ budget = 1

\* the rescaling inside _export_with_scalebar(exportim, intensity_range=r)
Rescale ==
    /\ budget > 0
    /\ \E r \in IntensityRanges(file.dtype), numpy \in {"1", "2"} :
       \E b \in intensity_bounds(file, r) :
       \E x \in rescale(file, b, numpy) :
          /\ args' = [op |-> "rescale", intensity_range |-> r, numpy |-> numpy]
          /\ last' = x
    /\ budget' = budget - 1
    /\ UNCHANGED <<cls, file, attr, disk, hist, convVars, barVars>>

NextIntensity == Rescale
SpecIntensity == InitIntensity /\ [][NextIntensity]_vars

-----------------------------------------------------------------------------
(* velox: the container file and its handle                                *)

\* the most datasets of a container
MaxDatasets == 2

\* a container as the constructor of velox meets it: found under the name
\* given ("exact"), with '.emd' appended ("emd") or not at all ("no"),
\* whether glob('*.emd') lists it, whether it has a 'Data' group, and the
\* number of its datasets
Container(found, listed, data, n) ==
    [found |-> found, listed |-> listed, data |-> data, n |-> n]
Containers ==
    {Container(f, l, d, n) :
        f \in {"exact", "emd", "no"}, l \in BOOLEAN, d \in BOOLEAN,
        n \in 0..MaxDatasets}

\* a velox object: where it is in its life, whether self._emdfile is set,
\* whether the caller holds it, and the datasets that hold it as _parent
Velox(state, emdfile, held, refs) ==
    [state |-> state, emdfile |-> emdfile, held |-> held, refs |-> refs]
NoVelox == Velox("none", FALSE, FALSE, 0)

\* the handle of the container: how often it was opened and closed
Handle(opens, closes) == [opens |-> opens, closes |-> closes]

\* what an operation on the velox object did
Did(op, status) == [op |-> op, status |-> status]

\* no velox object yet and one of the containers
InitVelox ==
    /\ NoConversion
    /\ snap = NoBar
    /\ cls = "velox"
    /\ file \in Containers
    /\ attr = NoVelox
    /\ hist = Handle(0, 0)
    /\ disk = {} /\ args = Did("", "") /\ last = Did("", "")
    /\ budget = MaxCalls

\* velox.__init__(filename): the status, whether h5py.File was opened
velox_init(f, filename) ==
    LET opened == IF filename = "str" THEN f.found # "no" ELSE f.listed
    IN  IF ~opened THEN [status |-> "FileNotFoundError", opened |-> FALSE]
        ELSE IF ~f.data THEN [status |-> "KeyError", opened |-> TRUE]
        ELSE [status |-> "ok", opened |-> TRUE]

\* velox(filename), with a name, an index or None
VeloxInit ==
    /\ attr.state = "none"
    /\ \E filename \in {"str", "int", None} :
          LET r == velox_init(file, filename)
          IN  /\ attr' = Velox(IF r.status = "ok" THEN "alive" ELSE "failed",
                               r.opened, r.status = "ok", 0)
              /\ hist' = Handle(hist.opens + (IF r.opened THEN 1 ELSE 0),
                                hist.closes)
              /\ last' = Did("__init__", r.status)
              /\ args' = Did("__init__", filename)
    /\ UNCHANGED <<cls, file, disk, budget, convVars, barVars>>

\* velox.__del__(): self._emdfile.close(), on an object that may have no
\* _emdfile
velox_del(v, h) ==
    IF v.emdfile
    THEN [attr |-> Velox("dead", TRUE, FALSE, 0),
          hist |-> Handle(h.opens, h.closes + 1), status |-> "ok"]
    ELSE [attr |-> Velox("dead", FALSE, FALSE, 0), hist |-> h,
          status |-> "AttributeError"]

\* the last reference to the object goes: of a failed constructor when the
\* exception is dropped, else when the caller drops the object and no
\* dataset holds it
Destroy ==
    /\ \/ attr.state = "failed"
       \/ attr.state = "alive" /\ attr.held /\ attr.refs = 0
    /\ LET d == velox_del(attr, hist)
       IN  /\ attr' = d.attr
           /\ hist' = d.hist
           /\ last' = Did("__del__", d.status)
           /\ args' = Did("__del__", "")
    /\ UNCHANGED <<cls, file, disk, budget, convVars, barVars>>

\* the caller drops the object while datasets hold it: nothing happens yet
Release ==
    /\ attr.state = "alive" /\ attr.held /\ attr.refs > 0
    /\ attr' = [attr EXCEPT !.held = FALSE]
    /\ last' = Did("release", "ok")
    /\ args' = Did("release", "")
    /\ UNCHANGED <<cls, file, disk, hist, budget, convVars, barVars>>

\* velox.get_dataset(i): velox_dataset.__init__ keeps parent and its file
GetDataset ==
    /\ attr.state = "alive" /\ attr.held
    /\ attr.refs < file.n
    /\ budget > 0
    /\ attr' = [attr EXCEPT !.refs = @ + 1]
    /\ last' = Did("get_dataset", "ok")
    /\ args' = Did("get_dataset", "")
    /\ budget' = budget - 1
    /\ UNCHANGED <<cls, file, disk, hist, convVars, barVars>>

\* a dataset goes; with it the velox object when nothing else holds it
DropDataset ==
    /\ attr.state = "alive" /\ attr.refs > 0
    /\ IF attr.refs = 1 /\ ~attr.held
       THEN LET d == velox_del(attr, hist)
            IN  /\ attr' = d.attr
                /\ hist' = d.hist
                /\ last' = Did("__del__", d.status)
       ELSE /\ attr' = [attr EXCEPT !.refs = @ - 1]
            /\ hist' = hist
            /\ last' = Did("drop_dataset", "ok")
    /\ args' = Did("drop_dataset", "")
    /\ UNCHANGED <<cls, file, disk, budget, convVars, barVars>>

\* velox.close(): the class has no such method
VeloxClose ==
    /\ attr.state = "alive" /\ attr.held
    /\ budget > 0
    /\ last' = Did("close", "AttributeError")
    /\ args' = Did("close", "")
    /\ budget' = budget - 1
    /\ UNCHANGED <<cls, file, attr, disk, hist, convVars, barVars>>

NextVelox ==
    VeloxInit \/ Destroy \/ Release \/ GetDataset \/ DropDataset
    \/ VeloxClose
SpecVelox == InitVelox /\ [][NextVelox]_vars

-----------------------------------------------------------------------------
(* velox_dataset and velox_image: the frames of a dataset, the metadata of *)
(* a frame and the iteration over the frames                               *)

\* the most frames of a dataset, and the calls made on one dataset
MaxFrames == 2
MaxSteps == 7

\* a dataset of n frames; blocks[i + 1] is column i of 'Metadata'
Dataset(n, blocks) == [n |-> n, blocks |-> blocks]
Datasets ==
    UNION {{Dataset(n, b) : b \in [1..n -> {1, 2}]} : n \in 0..MaxFrames}

\* the attributes of a velox_image: metadata once a call has stored it,
\* _iter_n once __iter__ has run (-1: no such attribute)
FrameAttr(has, md, iter_n) == [has |-> has, md |-> md, iter_n |-> iter_n]

\* what a call on the dataset did
FrameReturned(status, md, frame, a) ==
    [status |-> status, md |-> md, frame |-> frame, attr |-> a]

\* velox_dataset.get_metadata(i)
velox_dataset_get_metadata(f, a, i) ==
    IF a.has THEN FrameReturned("ok", a.md, -1, a)
    ELSE IF i >= f.n THEN FrameReturned("IndexError", 0, -1, a)
    ELSE FrameReturned("ok", f.blocks[i + 1], -1,
                       [a EXCEPT !.has = TRUE, !.md = f.blocks[i + 1]])

\* velox_image.get_pixelsize(convert): reads self.get_metadata()
velox_dataset_get_pixelsize(f, a) == velox_dataset_get_metadata(f, a, 0)

\* velox_image.get_frame(i)
velox_image_get_frame(f, a, i) ==
    IF i >= f.n THEN FrameReturned("IndexError", 0, -1, a)
    ELSE FrameReturned("ok", 0, i, a)

\* velox_image.export_tiff(filename, frame_range) with an integer
\* frame_range: the frame and the metadata written with it
velox_image_export_tiff(f, a, frame_range) ==
    LET px == velox_dataset_get_pixelsize(f, a)
        data == velox_image_get_frame(f, px.attr, frame_range)
        md == velox_dataset_get_metadata(f, px.attr, frame_range)
    IN  IF px.status # "ok" THEN px
        ELSE IF data.status # "ok" THEN data
        ELSE FrameReturned(md.status, md.md, data.frame, md.attr)

\* velox_image.__iter__()
velox_image_iter(a) == [a EXCEPT !.iter_n = 0]

\* a variant that returns self[n]
next_index_after(n) == n
\* the frame __next__ returns with the counter at n: self[n - 1]
next_index(n) == n - 1

\* velox_image.__next__()
velox_image_next(f, a) ==
    LET a0 == IF a.iter_n = -1 THEN velox_image_iter(a) ELSE a
        a1 == [a0 EXCEPT !.iter_n = a0.iter_n + 1]
    IN  IF a1.iter_n > f.n THEN FrameReturned("StopIteration", 0, -1, a1)
        ELSE velox_image_get_frame(f, a1, next_index(a1.iter_n))

\* the two loops over one velox_image
Loops == {"A", "B"}
Other(p) == IF p = "A" THEN "B" ELSE "A"

\* a loop: idle, running or ended; the frames it was given; whether a next
\* after its end gave it a frame
Loop(state, seen, revived) ==
    [state |-> state, seen |-> seen, revived |-> revived]

\* the loops; overlap: a loop called iter while the other was running;
\* early: it did so before the other was given all the frames
Iteration(loops, overlap, early) ==
    [loops |-> loops, overlap |-> overlap, early |-> early]

FrameArgs(op, i, who) == [op |-> op, i |-> i, who |-> who]

InitFrames ==
    /\ NoConversion
    /\ snap = NoBar
    /\ cls = "velox_image"
    /\ file \in Datasets
    /\ attr = FrameAttr(FALSE, 0, -1)
    /\ hist = Iteration([p \in Loops |-> Loop("idle", << >>, FALSE)],
                        FALSE, FALSE)
    /\ disk = {} /\ args = FrameArgs("", 0, "")
    /\ last = FrameReturned("", 0, -1, FrameAttr(FALSE, 0, -1))
    /\ budget = MaxSteps

FrameCall(op, i, who, r) ==
    /\ args' = FrameArgs(op, i, who)
    /\ last' = r
    /\ attr' = r.attr
    /\ budget' = budget - 1
    /\ UNCHANGED <<cls, file, disk, convVars, barVars>>

\* self.get_metadata(i)
GetFrameMetadata ==
    /\ budget > 0
    /\ \E i \in 0..MaxFrames :
       FrameCall("get_metadata", i, "",
                 velox_dataset_get_metadata(file, attr, i))
    /\ UNCHANGED hist

\* self.get_pixelsize()
GetFramePixelsize ==
    /\ budget > 0
    /\ FrameCall("get_pixelsize", 0, "",
                 velox_dataset_get_pixelsize(file, attr))
    /\ UNCHANGED hist

\* self.export_tiff(filename, i)
ExportTiff ==
    /\ budget > 0
    /\ \E i \in 0..MaxFrames :
       FrameCall("export_tiff", i, "",
                 velox_image_export_tiff(file, attr, i))
    /\ UNCHANGED hist

\* a loop starts: iter(self)
Iter ==
    /\ budget > 0
    /\ \E p \in Loops :
       LET q == hist.loops[Other(p)]
       IN  /\ hist.loops[p].state = "idle"
           /\ FrameCall("iter", 0, p,
                        FrameReturned("ok", 0, -1, velox_image_iter(attr)))
           /\ hist' = Iteration(
                        [hist.loops EXCEPT ![p] = Loop("running", << >>, FALSE)],
                        hist.overlap \/ q.state = "running",
                        hist.early \/ (q.state = "running"
                                       /\ Len(q.seen) < file.n))

\* a loop asks for its next frame: next(self); a loop that never called
\* iter starts here when no loop has run before
NextFrame ==
    /\ budget > 0
    /\ \E p \in Loops :
       LET l == hist.loops[p]
           r == velox_image_next(file, attr)
       IN  /\ l.state = "idle" => attr.iter_n = -1
           /\ FrameCall("next", 0, p, r)
           /\ hist' = [hist EXCEPT !.loops[p] =
                         IF l.state = "ended"
                         THEN Loop("ended", l.seen,
                                   l.revived \/ r.status # "StopIteration")
                         ELSE IF r.status = "ok"
                         THEN Loop("running", Append(l.seen, r.frame), FALSE)
                         ELSE Loop("ended", l.seen, FALSE)]

NextFrames ==
    GetFrameMetadata \/ GetFramePixelsize \/ ExportTiff \/ Iter \/ NextFrame

SpecFrames == InitFrames /\ [][NextFrames]_vars

-----------------------------------------------------------------------------
(* velox_edx.get_image: the decoder of the event stream (lines 1265-1286)  *)

\* the largest scan size, binning and length of a stream
MaxScan == 3
MaxBinning == 2
MaxStream == 4

\* a scan of nx by ny pixels read with a binning
Scan(nx, ny, binning) == [nx |-> nx, ny |-> ny, binning |-> binning]
Scans ==
    {Scan(nx, ny, b) : nx \in 1..MaxScan, ny \in 1..MaxScan,
                       b \in 1..MaxBinning}

\* the entries of a stream after the energy mask: the pixel flag and the
\* events that are counted
Streams == UNION {[1..n -> {"pixelflag", "event"}] : n \in 0..MaxStream}

\* np.zeros((ny//binning, nx//binning)): the counts by flat index
zeros(rows, cols) == [i \in 0..(rows * cols - 1) |-> 0]

\* the decoder after some entries: the position, the array, whether the
\* position stayed inside the scan, the increments at an index that the
\* array does not have and those of them past the end of its memory
Decoder(x, y, res, inside, stray, beyond) ==
    [x |-> x, y |-> y, res |-> res, inside |-> inside, stray |-> stray,
     beyond |-> beyond]

\* the body of the loop for one entry v; an index past a row of the array
\* is, without a check of the bounds, the flat index of another element
construct_step(d, v, f) ==
    LET rows == f.ny \div f.binning
        cols == f.nx \div f.binning
    IN  IF v = "pixelflag"
        THEN LET x1 == d.x + 1
                 x2 == IF x1 = f.nx THEN 0 ELSE x1
                 y1 == IF x1 = f.nx THEN d.y + 1 ELSE d.y
                 y2 == IF x1 = f.nx /\ y1 = f.ny THEN 0 ELSE y1
             IN  [d EXCEPT !.x = x2, !.y = y2,
                           !.inside = d.inside /\ x2 < f.nx /\ y2 < f.ny]
        ELSE LET r == d.y \div f.binning
                 c == d.x \div f.binning
                 flat == r * cols + c
                 exists == r < rows /\ c < cols
             IN  IF flat < rows * cols
                 THEN [d EXCEPT !.res[flat] = (d.res[flat] + 1) % 65536,
                                !.stray = d.stray + (IF exists THEN 0 ELSE 1)]
                 ELSE [d EXCEPT !.stray = d.stray + 1,
                                !.beyond = d.beyond + 1]

\* _construct_spectrumim(stream)
RECURSIVE construct_from(_, _, _, _)
construct_from(d, stream, i, f) ==
    IF i > Len(stream) THEN d
    ELSE construct_from(construct_step(d, stream[i], f), stream, i + 1, f)

_construct_spectrumim(stream, f) ==
    construct_from(Decoder(0, 0, zeros(f.ny \div f.binning,
                                       f.nx \div f.binning), TRUE, 0, 0),
                   stream, 1, f)

\* how get_image ends: a build that checks the bounds raises IndexError at
\* the first index the array does not have, one that does not returns the
\* array after writing elsewhere
Decoded(status, d) == [status |-> status, d |-> d]
get_image(stream, f) ==
    LET d == _construct_spectrumim(stream, f)
    IN  IF d.stray = 0 THEN {Decoded("ok", d)}
        ELSE {Decoded("IndexError", d), Decoded("ok", d)}

InitEdx ==
    /\ NoConversion
    /\ snap = NoBar
    /\ cls = "velox_edx"
    /\ file \in Scans
    /\ attr = NoAttr /\ hist = History(FALSE, 0)
    /\ disk = {} /\ args = [op |-> "", stream |-> << >>]
    /\ last = Decoded("", _construct_spectrumim(<< >>, file))
    /\ budget = 1

\* self.get_image(binning) on a file with some stream
GetImage ==
    /\ budget > 0
    /\ \E stream \in Streams :
       \E r \in get_image(stream, file) :
          /\ args' = [op |-> "get_image", stream |-> stream]
          /\ last' = r
    /\ budget' = budget - 1
    /\ UNCHANGED <<cls, file, attr, hist, disk, convVars, barVars>>

NextEdx == GetImage

SpecEdx == InitEdx /\ [][NextEdx]_vars

-----------------------------------------------------------------------------
(* Properties of the calls on an instance                                  *)

\* the call just made is export_with_scalebar with the name of the source
C1_OwnName ==
    /\ args.op = "export_with_scalebar"
    /\ args.filename = Source

\* C1 as stated: for every class and every choice of the other options,
\* export_with_scalebar called with the name of the source file ends in
\* ValueError and has written no file
C1_Original ==
    C1_OwnName => last.status = "ValueError" /\ last.wrote = << >>

\* C1: export_with_scalebar called with the name of the source file fails
\* and writes no file, neither the image nor the settings: it ends in
\* ValueError when the pixel size is cached or get_pixelsize returns, and in
\* the error of get_pixelsize when that raises
C1_GuardBeforeWrite ==
    [][(C1_OwnName' /\ budget' < budget) =>
          /\ disk' = disk
          /\ last'.wrote = << >>
          /\ last'.status # "ok"
          /\ \/ last'.status = "ValueError"
             \/ /\ ~attr.has
                /\ \E r \in get_pixelsize(cls, file, attr, None) :
                      r.status # "ok" /\ last'.status = r.status]_vars

\* the guard has refused a call that asked for the image and the settings
C1_Witness ==
    /\ C1_OwnName
    /\ args.k.save /\ args.k.store_settings
    /\ last.status = "ValueError"
    /\ disk = {}

\* C2: once a pixel size has been resolved on an instance, no later call
\* runs get_pixelsize again
C2_ResolvedOnce ==
    [][hist.resolved => hist.runs' = hist.runs]_vars

\* the user's entry or the recognised text of the legacy strategy gave a
\* number and a unit of the table, and convert is None or a unit
C3_LegacyEntry ==
    /\ cls = "tia"
    /\ args.op = "get_pixelsize"
    /\ \E i \in 1..Len(last.warns) : last.warns[i] = "fallback_legacy"
    /\ \/ last.env.ocr \in {"ok", ""} /\ (last.env.ocr = "" => last.env.numeric)
       \/ last.env.numeric /\ Canonical(last.env.unit) \in NamedUnits
    /\ args.convert = None \/ Canonical(args.convert) \in NamedUnits

\* C3: when tia.get_pixelsize falls back to get_pixelsize_legacy and that
\* gives a number and a valid unit, the call returns a numeric pixel size
\* and a unit, for convert None and for every valid convert
C3_LegacyTerminates ==
    C3_LegacyEntry => last.status = "ok" /\ last.px.kind = "num"

-----------------------------------------------------------------------------
(* The threshold schemes of the automatic unit                             *)

\* the unit of the first tier x reaches, or else rest
RECURSIVE TierUnit(_, _, _)
TierUnit(x, tiers, rest) ==
    IF tiers = << >> THEN rest
    ELSE IF DecGeq(x, Head(tiers).from) THEN Head(tiers).unit
    ELSE TierUnit(x, Tail(tiers), rest)

\* >=0.1 m -> m; >=0.1 mm -> mm; >=0.1 µm -> µm; else nm
FourTier(x) ==
    TierUnit(x, << [from |-> Dec(1, -1), unit |-> "m"],
                   [from |-> Dec(1, -4), unit |-> "mm"],
                   [from |-> Dec(1, -7), unit |-> "µm"] >>, "nm")

\* >=k mm -> m; >=k µm -> mm; >=k nm -> µm; >=k pm -> nm; else pm
FiveTier(k, x) ==
    TierUnit(x, << [from |-> Dec(k, -3), unit |-> "m"],
                   [from |-> Dec(k, -6), unit |-> "mm"],
                   [from |-> Dec(k, -9), unit |-> "µm"],
                   [from |-> Dec(k, -12), unit |-> "nm"] >>, "pm")

\* the value in meter per pixel the file of the instance carries
C9_Meters ==
    CASE cls = "tia" -> tia_meters(file.baseunit, file.res)
      [] cls = "sis" -> Mul10(file.px0, file.exp)
      [] OTHER -> file.px0

\* a resolver has chosen the unit itself from a value in meter
C9_AutoCall ==
    /\ cls \in {"helios", "tia", "sis", "velox_image"}
    /\ cls = "tia" => file.layout \in {"tia", "std"}
    /\ args.op = "get_pixelsize"
    /\ args.convert = None
    /\ last.status = "ok"

\* the unit chosen is that of the scheme, tia with boundaries of k units,
\* and the value returned is the value in that unit
C9_Follows(k) ==
    C9_AutoCall =>
        LET u == CASE cls = "helios" -> FourTier(C9_Meters)
                   [] cls = "tia" -> FiveTier(k, C9_Meters)
                   [] OTHER -> FiveTier(10, C9_Meters)
        IN  /\ last.unit = u
            /\ last.px.v0 = _convert_length(C9_Meters, "m", u).value

\* C9 as stated: helios follows the 4-tier scheme and tia, sis and
\* velox_image the 5-tier scheme with boundaries at 10 mm, 10 µm, 10 nm and
\* 10 pm
C9_Original == C9_Follows(10)

\* C9: helios follows the 4-tier scheme, sis and velox_image the 5-tier
\* scheme with boundaries at 10 mm, 10 µm, 10 nm and 10 pm, and tia a 5-tier
\* scheme with boundaries at 1 mm, 1 µm, 1 nm and 1 pm
C9_ThreeSchemes == C9_Follows(1)

\* tia has put 2 nm per pixel in µm, where sis puts it in nm
C9_Witness ==
    /\ C9_AutoCall
    /\ cls = "tia"
    /\ C9_Meters = Dec(2, -9)
    /\ last.unit = "µm"
    /\ last.px.v0 = Dec(2, -3)

-----------------------------------------------------------------------------
(* The size of the bar                                                     *)

\* C10: the size chosen is a value of the list, no value of the list is
\* strictly nearer to the target, a target of the list is chosen itself, and
\* a target of 13.4 gives 10
C10_SnapNearest ==
    snap.set =>
        /\ \E i \in 1..Len(lst) : snap.size = lst[i]
        /\ \A i \in 1..Len(lst) :
              ~DecLt(DecAbsDiff(lst[i], snap.target),
                     DecAbsDiff(snap.size, snap.target))
        /\ (\E i \in 1..Len(lst) : snap.target = lst[i])
              => snap.size = snap.target
        /\ snap.target = Dec(134, -1) => snap.size = Dec(1, 1)

\* a target of 13.4 has been snapped to 10
C10_Witness ==
    /\ snap.set
    /\ snap.target = Dec(134, -1)
    /\ snap.size = Dec(1, 1)

\* C11: for an image 1024 pixels wide with a pixel size of 2 nm, scale 1 and
\* no barsize given, the bar is 300 nm, which is 150 pixels
C11_Bar300 ==
    (/\ snap.set /\ snap.from = "auto"
     /\ snap.width = 1024 /\ snap.pixelsize = Dec(2, 0) /\ snap.scale = One)
        => snap.size = Dec(300, 0) /\ snap.length = Dec(150, 0)

\* C12: for each loc of 0 to 3 and an automatically chosen bar, the box
\* lies inside the image, and it is at least as wide as the bar and as the
\* text with their paddings
C12_BoxInside ==
    (/\ snap.set /\ snap.from = "layout"
     /\ snap.box.draw_bar /\ snap.box.draw_text)
        => LET b == snap.box
           IN  /\ DecLeq(Zero, b.x)
               /\ DecLeq(DecAdd(b.x, b.boxwidth), Dec(snap.width, 0))
               /\ DecLeq(Zero, b.y)
               /\ DecLeq(DecAdd(b.y, b.boxheight), Dec(snap.height, 0))
               /\ DecLeq(DecAdd(snap.length, DecMul(Dec(2, 0), b.barpad)),
                         b.boxwidth)
               /\ DecLeq(DecAdd(b.textw, DecMul(Dec(2, 0), b.fontpad)),
                         b.boxwidth)

-----------------------------------------------------------------------------
(* Properties of the calls of the renderer                                 *)

C13_Called == args.op = "_export_with_scalebar"

\* the other arguments of the call are valid
C13_OthersValid ==
    /\ file.ndim = 2
    /\ args.k.convert = None
    /\ args.k.intensity_range = None
    /\ args.k.font \in FontsInstalled

\* C13: for every choice of the other options, with or without bar and
\* text, with or without the settings stored, a call with a loc outside
\* 0..3 ends in ValueError and has written no file
C13_InvalidLocRaises ==
    (C13_Called /\ C13_OthersValid /\ args.k.loc \notin {0, 1, 2, 3})
        => /\ last.status = "ValueError"
           /\ last.wrote = << >>
           /\ disk = {}

\* the region a crop addresses: a negative corner counts from the far edge
C19_Corner(c, n) == IF c < 0 THEN n + c ELSE c
C19_Region ==
    LET v == args.k.crop.v
        x == C19_Corner(v[1], file.width)
        y == C19_Corner(v[2], file.height)
    IN  IF args.k.crop.form = "xywh"
        THEN [origin |-> <<x, y>>, shape |-> <<v[3], v[4]>>]
        ELSE [origin |-> <<x, y>>,
              shape |-> <<C19_Corner(v[3], file.width) - x,
                          C19_Corner(v[4], file.height) - y>>]
C19_Inside ==
    /\ C19_Region.origin[1] >= 0 /\ C19_Region.origin[2] >= 0
    /\ C19_Region.shape[1] > 0 /\ C19_Region.shape[2] > 0
    /\ C19_Region.origin[1] + C19_Region.shape[1] <= file.width
    /\ C19_Region.origin[2] + C19_Region.shape[2] <= file.height

\* C19: for both forms of crop a negative corner counts from the far edge
\* and the image made is the region addressed, of the width and height
\* given when the region lies inside the image
C19_CropIsRegion ==
    (C13_Called /\ file.ndim = 2 /\ args.k.crop.form # "none" /\ C19_Inside)
        => /\ last.status = "ok"
           /\ last.shape = C19_Region.shape
           /\ last.origin = C19_Region.origin

\* C20: a call that fails has written no file, the settings included
C20_NoWriteBeforeFailure ==
    (C13_Called /\ last.status # "ok") => last.wrote = << >> /\ disk = {}

-----------------------------------------------------------------------------
(* Properties of the strategies of a resolver                              *)

\* a strategy of the call met an error that is not its own not-applicable
\* condition: in a helios file the text of Scan.PixelWidth is not a number,
\* on a tia file the memory ran out in the text recognition step
C14_OtherError ==
    \/ cls = "helios" /\ file.layout = "scantext"
    \/ cls = "tia" /\ last.env.ocr = "MemoryError"

\* C14: a strategy gives way to the next one only when what it looks up is
\* absent; any other error inside a strategy reaches the caller, so the
\* call does not succeed with the value of the next strategy and the user
\* is not asked to type the scale bar
C14_OnlyNotApplicable ==
    (args.op \in {"get_pixelsize", "get_pixelsize_legacy"} /\ C14_OtherError)
        => /\ last.status \notin {"ok"}
           /\ last.prompts = 0
-----------------------------------------------------------------------------
(* Properties of get_metadata                                              *)

\* the call just made is tia.get_metadata(asdict=True) on a file with the
\* metadata tag
C15_AsDict ==
    /\ args.op = "get_metadata" /\ cls = "tia"
    /\ args.asdict /\ 34682 \in file.tags

\* block i is the first block of its label
C15_First(i) ==
    \A j \in 1..(i - 1) : file.blocks[j].label # file.blocks[i].label

\* C15: the dict of tia.get_metadata(asdict=True) has one entry for every
\* <Data> block, and one more when a pixel size is kept on the instance;
\* the first block of every label is still there under its label with its
\* own value, so nothing has been overwritten
C15_NoOverwrite ==
    C15_AsDict
        => /\ Len(last.dict) = Len(file.blocks) + (IF attr.has THEN 1 ELSE 0)
           /\ \A i \in 1..Len(file.blocks) :
                 C15_First(i)
                     => \E j \in 1..Len(last.dict) :
                           /\ last.dict[j].label = file.blocks[i].label
                           /\ last.dict[j].value = file.blocks[i].value
\* the call just made is get_metadata of a parser of sectioned text, on a
\* file with the text of some sections
C16_Parsed ==
    /\ args.op = "get_metadata" /\ cls \in {"helios", "xl30sfeg"}
    /\ file.doc # << >>

\* looking up section and then key in the tree gives the value of every
\* item the text was written from
C16_RoundTrip ==
    \A i \in 1..Len(file.doc) :
       \A j \in 1..Len(file.doc[i].items) :
          lookup(last.tree, file.doc[i].name, file.doc[i].items[j].key)
              = file.doc[i].items[j].value

\* C16: for every well-formed sectioned text, with lines ended by a
\* newline, with or without blanks around the values and with or without
\* '=' in them, helios.get_metadata and xl30sfeg.get_metadata return a tree
\* in which section and key lead to exactly the value, blanks trimmed
C16_SectionedRoundTrip ==
    C16_Parsed => last.status = "ok" /\ C16_RoundTrip
\* the file holds no metadata for the class: the tag of the class, the
\* '<?xml' declaration or the '[DatabarData]' line is missing
C17_NoMetadata ==
    CASE cls \in {"tia", "helios"} -> file.tags = {}
      [] cls = "ZeissSEM" -> 34118 \notin file.tags
      [] cls = "phenom" -> ~file.decl
      [] cls = "xl30sfeg" -> find(file.text, DatabarData) = 0
      [] OTHER -> FALSE

\* C17: get_metadata of every class on a file without metadata gives a
\* warning and returns None or an empty tree or dict; it does not raise
C17_WarnsAndReturns ==
    (args.op = "get_metadata" /\ C17_NoMetadata)
        => /\ last.status = "ok"
           /\ last.warns # << >>
           /\ last.dict = << >> /\ last.tree = << >>

\* C18: helios.get_metadata on a file with the XML of tag 34683 returns the
\* tree of that XML, with the sections of tag 34682 added when that tag is
\* there as well; it returns None with a warning only when neither tag is
\* in the file
C18_XmlReturned ==
    (args.op = "get_metadata" /\ cls = "helios")
        => /\ 34683 \in file.tags
                => /\ last.status = "ok" => last.kind = "tree"
                   /\ last.kind = "tree"
                        => SubSeq(last.tree, 1, Len(HeliosXml)) = HeliosXml
           /\ (last.status = "ok" /\ last.kind = "None")
                => file.tags = {} /\ last.warns = <<"no_metadata">>
-----------------------------------------------------------------------------
(* Properties of the old names                                             *)

\* C21: tecnai and talos, as the package exports them, are constructed
\* from the name of an existing file with one deprecation warning, and the
\* instance then has the methods of tia
C21_AliasConstructs ==
    (args.op = "__init__" /\ args.entry \in {"tecnai", "talos"}
     /\ args.filename = "exists")
        => /\ last.status = "ok"
           /\ last.warns = <<"DeprecationWarning">>
           /\ cls = "tia"
-----------------------------------------------------------------------------
(* Properties of the velox container                                       *)

\* C22: the handle the constructor of velox opens is released exactly once:
\* it is never closed more often than opened, a destroyed object leaves no
\* handle open whether its constructor returned or raised, an explicit
\* close releases it, and destroying an object whose constructor raised
\* before the file was opened raises nothing
C22_HandleReleased ==
    cls = "velox"
        => /\ hist.closes <= hist.opens
           /\ attr.state = "dead" => hist.closes = hist.opens
           /\ last.op = "close" => last.status = "ok"
           /\ last.op = "__del__" => last.status = "ok"
-----------------------------------------------------------------------------
(* Properties of the calibration from the data bar                         *)

\* the warnings the function of the class gives for a failure of the text
\* recognition
C23_WarningOf(cause) ==
    legacy(cls, file, NoAttr, Env(cause, "nm", One, TRUE)).warns

\* the text recognition of the call failed
C23_Failed == args.op = "calibrate" /\ last.env.ocr \in OcrFailures

\* C23: each of the three failures of the text recognition has a warning
\* of its own, the warning comes before the first prompt, and after a
\* failure value and unit are what the user typed and nothing else
C23_DistinctWarnings ==
    C23_Failed
        => /\ \A c1, c2 \in OcrFailures :
                 c1 # c2 => C23_WarningOf(c1) # C23_WarningOf(c2)
           /\ last.warns = C23_WarningOf(last.env.ocr)
           /\ last.warns # << >>
           /\ last.prompts = 2
           /\ console(last)[1] = "warning"
           /\ last.status = "ok"
                => /\ last.env.numeric
                   /\ last.px = PxNum(DecDiv(last.env.value,
                                             Dec(file.barlength, 0)))
                   /\ last.unit = last.env.unit
-----------------------------------------------------------------------------
(* Properties of the intensity rescaling                                   *)

\* C24: the rescaling of an integer image ends without error; a pixel at
\* or below the low bound becomes 0, a pixel at or above the high bound
\* 255, every pixel lies in 0..255 and a brighter pixel never becomes
\* darker than a dimmer one, for min and max, percentiles and pairs
\* low < high, the bounds inside the data type or not
C24_LinearClipped ==
    args.op = "rescale"
        => /\ last.status = "ok"
           /\ \A i \in 1..2 :
                 /\ last.out[i] \in 0..255
                 /\ (2 * file.px[i] <= last.bounds.lo2
                     /\ last.bounds.lo2 < last.bounds.hi2)
                        => last.out[i] = 0
                 /\ 2 * file.px[i] >= last.bounds.hi2 => last.out[i] = 255
           /\ \A i, j \in 1..2 :
                 file.px[i] <= file.px[j] => last.out[i] <= last.out[j]
-----------------------------------------------------------------------------
(* Properties of tia.get_pixelsize on the tags                             *)

\* get_pixelsize was called on a file with tags 65450, 65451 and 65452
C25_Triple ==
    /\ args.op = "get_pixelsize" /\ cls = "tia"
    /\ TripleTags \subseteq file.tags

\* the length of the base unit in meter: inch and centimeter
C25_BaseLength(baseunit) == IF baseunit = 2 THEN Dec(254, -4) ELSE Dec(1, -2)

\* C25: with tags 65450-65452 in the file, they are what get_pixelsize
\* uses and tags 33560, 270 and 282/283/296 are not looked at: for base
\* unit inch or centimeter the size asked for in meter times the numerator
\* is the length of the base unit times the denominator, and no warning of
\* another branch is given; the ImageJ branch runs only without the three
\* tags, and the branch of 282/283/296 only without them and without an
\* ImageJ description
C25_TripleFirst ==
    /\ (C25_Triple /\ file.triple.baseunit \in {2, 3})
          => /\ last.status = "ok"
             /\ last.warns = << >>
             /\ args.convert = "m"
                  => /\ last.unit = "m"
                     /\ DecMul(last.px.v0, file.triple.num)
                            = DecMul(C25_BaseLength(file.triple.baseunit),
                                     file.triple.den)
    /\ (args.op = "get_pixelsize" /\ cls = "tia" /\ last.warns # << >>)
          => /\ last.warns[1] = "imagej" => ~C25_Triple
             /\ last.warns[1] = "unusual_format"
                  => ~C25_Triple /\ ~(270 \in file.tags /\ file.imagej)

\* a file with all the tag groups and the base unit inch was resolved
C25_Witness ==
    /\ C25_Triple /\ file.triple.baseunit = 2
    /\ StdTags \cup {270, 33560} \subseteq file.tags /\ file.imagej
    /\ args.convert = "m"
    /\ last.status = "ok"
    /\ last.px = PxNum(Dec(254, -10))
-----------------------------------------------------------------------------
(* Properties of the parsers of sectioned text                             *)

\* the first line of the text that is not empty is a key=value line
C26_Leading ==
    LET lines == SelectSeq(split(file.text, NL),
                           LAMBDA l : l \notin {<< >>, <<"\r">>})
    IN  /\ lines # << >>
        /\ lines[1][1] # "["
        /\ find(lines[1], <<"=">>) > 0

\* C26: get_metadata of helios, xl30sfeg and ZeissSEM on a text whose
\* first line is a key=value line ends in an error; the line is not put
\* under some parent and the call does not return a tree
C26_NeedsParent ==
    (args.op = "get_metadata" /\ cls \in {"helios", "xl30sfeg", "ZeissSEM"}
     /\ C26_Leading /\ (cls = "helios" => 34682 \in file.tags))
        => /\ last.status # "ok"
           /\ last.kind = "None"
-----------------------------------------------------------------------------
(* Properties of the pixel size handed to the renderer                     *)

\* the size of a pixel along x in what get_pixelsize returns and stores:
\* helios has (x, y), phenom (y, x) and velox_image [height, width]
pixel_width(c, px) == IF c = "helios" THEN px.v0 ELSE px.v1

\* an export of a class with a pixel size per axis has drawn, without a
\* conversion, and left the pixel size on the instance
C27_Drawn ==
    /\ args.op = "export_with_scalebar"
    /\ cls \in {"helios", "phenom", "velox_image"}
    /\ args.k.convert = None
    /\ last.status = "ok"
    /\ attr.has /\ attr.pixelsize.kind = "pair"

\* C27: export_with_scalebar of helios, phenom and velox_image draws the
\* bar with the size of a pixel along x, with the pixel size cached by an
\* earlier get_pixelsize and with the one the export computes itself
C27_PassesWidth ==
    C27_Drawn => last.px = PxNum(pixel_width(cls, attr.pixelsize))

\* as C27, for helios and velox_image alone
C27_OthersPassWidth ==
    (C27_Drawn /\ cls # "phenom")
        => last.px = PxNum(pixel_width(cls, attr.pixelsize))
-----------------------------------------------------------------------------
(* Properties of the frames of a velox dataset                             *)

\* C28: get_metadata(i) on a dataset with a frame i returns the metadata
\* of frame i, whatever was called on the dataset before
C28_FrameMetadata ==
    (args.op = "get_metadata" /\ args.i < file.n /\ last.status = "ok")
        => last.md = file.blocks[args.i + 1]

\* the first call on a dataset returns the metadata of its frame
C28_FirstCall ==
    (args.op = "get_metadata" /\ args.i < file.n /\ budget = MaxSteps - 1)
        => /\ last.status = "ok"
           /\ last.md = file.blocks[args.i + 1]

\* frames 0, 1, ..., k - 1
FirstFrames(k) == [i \in 1..k |-> i - 1]

\* loop p was given every frame once, in the order of the indices
SeesAll(p) == hist.loops[p].seen = FirstFrames(file.n)

\* one loop alone is given frames 0, 1, ... in order, all n of them before
\* its end, and no frame after its end
C29_InOrder ==
    \A p \in Loops :
        hist.loops[Other(p)].state = "idle"
            => LET l == hist.loops[p]
               IN  /\ Len(l.seen) <= file.n
                   /\ l.seen = FirstFrames(Len(l.seen))
                   /\ l.state = "ended" => Len(l.seen) = file.n
                   /\ ~l.revived

-----------------------------------------------------------------------------
(* Properties of the decoder of velox_edx.get_image                        *)

\* the position stays inside the scan after every entry
C30_Inside ==
    args.op = "get_image"
        => /\ last.d.inside
           /\ last.d.x \in 0..(file.nx - 1) /\ last.d.y \in 0..(file.ny - 1)

\* C30: for every stream, scan size and binning the position stays inside
\* the scan after every entry, and every increment is at an index that the
\* array of (ny // binning) by (nx // binning) counts has
C30_InBounds ==
    /\ C30_Inside
    /\ args.op = "get_image" => (last.d.stray = 0 /\ last.status = "ok")

\* as C30, for a scan size that is a multiple of the binning
C30_Multiples ==
    (args.op = "get_image" /\ file.nx % file.binning = 0
     /\ file.ny % file.binning = 0)
        => (last.d.stray = 0 /\ last.status = "ok")
====
